---- MODULE Spec2Model ----
(***************************************************************************)
(* Pilcrow: content negotiation (extract.rs), dual-mode selection          *)
(* (select.rs), the response modifiers and encoders (response.rs), the     *)
(* typed WebSocket stream (ws.rs), server-sent events (sse.rs) and the     *)
(* respond! macro (macros.rs).                                             *)
(*                                                                         *)
(* These state machines share the pure operators below:                    *)
(*   SpecSelect      one request: headers -> SilcrowRequest -> select      *)
(*   Spec            one response value: constructor -> modifiers -> encode *)
(*   SpecDirectives  one response value under every modifier               *)
(*   SpecWs          one WsStream: send, recv, close and its peer          *)
(*   SpecWsLive      SpecWs with a runtime that keeps polling recv         *)
(*   SpecWsPair      two WsStreams: sends on each                          *)
(*   SpecCodec       one WsEvent: to_string, then from_str                 *)
(*   SpecSse         one SilcrowEvent: constructor, then conversion        *)
(*   SpecRespond     one invocation of respond! on one request             *)
(***************************************************************************)
EXTENDS Integers, Sequences, FiniteSets, TLC

VARIABLES
    \* ---- request / selection (extract.rs, select.rs)
    pc,          \* "parts" -> "handler" -> "done"
    parts,       \* the request headers the extractor reads
    req,         \* Result<SilcrowRequest, Rejection> of from_request_parts
    responses,   \* Responses<E>: html / json : Option<producer>
    html_calls,  \* number of invocations of the html producer
    json_calls,  \* number of invocations of the json producer
    mode,        \* the RequestMode select matched on ("None" before select)
    outcome,     \* Option<Result<Response, E>> returned by select
    arms,        \* the arms and the shared toast a respond! invocation is given
    \* ---- response building (response.rs)
    rpc,         \* "new" -> "building" -> "encoded"
    resp,        \* the HtmlResponse / JsonResponse / NavigateResponse value
    encoded,     \* Option<Response> produced by into_response
    \* ---- history of the modifier calls made on resp (not read by any action)
    toast_log,   \* the Toast arguments of the with_toast calls, in call order
    header_log,  \* header name -> value of the last call that gave it a legal value
    last_call,   \* the latest modifier call: "dropped" for an illegal header value,
                 \* "replaced" for a legal value given to a name that had another
                 \* one, "applied" otherwise (and before any call)
    \* ---- one WebSocket connection (ws.rs)
    ws_pc,       \* "off", "idle", "recv" (a recv call is pending) or "closed"
    inbound,     \* the frames the peer has sent, in order
    rd,          \* how many of them socket.recv() has yielded
    net,         \* the transport: "open", "ended" (disconnect) or "error"
    returns,     \* what the recv calls returned, with the frame each is for
    wire,        \* the messages this side put on the socket, in order
    sends,       \* the events handed to send, with the result of each call
    conn2,       \* a second connection: its transport, wire and sends
    \* ---- one server-sent event (sse.rs)
    sse_pc,      \* "off", "new" -> "built" -> "converted"
    sse_in,      \* the arguments the constructor of the event was given
    sse_evt,     \* Option<SilcrowEvent>
    sse_out      \* Option<axum Event> the SilcrowEvent converts to

selVars  == <<pc, parts, req, responses, html_calls, json_calls, mode, outcome, arms>>
logVars  == <<toast_log, header_log, last_call>>
respVars == <<rpc, resp, encoded, logVars>>
wsVars   == <<ws_pc, inbound, rd, net, returns, wire, sends, conn2>>
sseVars  == <<sse_pc, sse_in, sse_evt, sse_out>>
streamVars == <<wsVars, sseVars>>
vars     == <<selVars, respVars, streamVars>>

(***************************************************************************)
(* Bounds of the model.                                                    *)
(***************************************************************************)
MaxRanges == 2    \* media ranges in one Accept header
MaxToasts == 2    \* with_toast calls on one response
MaxModifiers == 3 \* header names set plus toasts pushed on one response
MaxFrames == 3    \* frames received plus events sent on one connection

(***************************************************************************)
(* Option<T> is a sequence of length <= 1.                                 *)
(***************************************************************************)
None    == << >>
Some(x) == << x >>

(***************************************************************************)
(* serde_json::Value.  Every value is a record tagged by t; the payload    *)
(* field has a different name per tag.                                     *)
(***************************************************************************)
JNull    == [t |-> "null"]
JBool(b) == [t |-> "bool", b |-> b]
JNum(n)  == [t |-> "num", n |-> n]
JStr(s)  == [t |-> "str", s |-> s]
JArr(a)  == [t |-> "arr", a |-> a]
JObj(o)  == [t |-> "obj", o |-> o]

EmptyMap == [k \in {} |-> JNull]

\* serde_json::Map::insert: sets the key, replacing a value already there.
MapInsert(m, k, v) == [x \in (DOMAIN m) \cup {k} |-> IF x = k THEN v ELSE m[x]]

\* A value whose Serialize impl returns Err (FailingSerialize in the tests).
FailingSerialize == [t |-> "unserializable"]

\* serde_json::to_value(&data): Result<Value, Error>.
to_value(data) ==
    IF data.t = "unserializable"
    THEN [ok |-> FALSE, value |-> JNull]
    ELSE [ok |-> TRUE, value |-> data]

(***************************************************************************)
(* axum Response: status, header multi-map, body.                          *)
(* headers is a function from the names present to the sequence of values  *)
(* stored under the name (HeaderMap::get_all).                             *)
(***************************************************************************)
HV(s) == [s |-> s]          \* a HeaderValue built from a string

NoHeaders == [n \in {} |-> << >>]

\* HeaderMap::insert: the name then holds exactly this value.
hm_insert(h, n, v) == [x \in (DOMAIN h) \cup {n} |-> IF x = n THEN << v >> ELSE h[x]]

\* HeaderMap::append: the value is added after the values already there.
hm_append(h, n, v) ==
    [x \in (DOMAIN h) \cup {n} |->
        IF x = n THEN (IF n \in DOMAIN h THEN h[n] ELSE << >>) \o << v >> ELSE h[x]]

hm_get_all(h, n) == IF n \in DOMAIN h THEN h[n] ELSE << >>

EmptyBody   == [kind |-> "empty"]
TextBody(s) == [kind |-> "text", text |-> s]
JsonBody(v) == [kind |-> "json", json |-> v]

StatusOnly(code) == [status |-> code, headers |-> NoHeaders, body |-> EmptyBody]

\* (StatusCode, &'static str).into_response()
StatusText(code, s) ==
    [status |-> code,
     headers |-> hm_insert(NoHeaders, "content-type", HV("text/plain; charset=utf-8")),
     body |-> TextBody(s)]

\* axum::response::Html(data).into_response()
AxumHtml(data) ==
    [status |-> 200,
     headers |-> hm_insert(NoHeaders, "content-type", HV("text/html; charset=utf-8")),
     body |-> TextBody(data)]

\* axum::Json(value).into_response()
AxumJson(v) ==
    [status |-> 200,
     headers |-> hm_insert(NoHeaders, "content-type", HV("application/json")),
     body |-> JsonBody(v)]

\* axum::response::Redirect::to(path).into_response()
AxumRedirect(path) ==
    [status |-> 303,
     headers |-> hm_insert(NoHeaders, "location", HV(path)),
     body |-> EmptyBody]

(***************************************************************************)
(* response.rs: Toast, BaseResponse and the encoders.                      *)
(***************************************************************************)
Toast(message, level) == [message |-> message, level |-> level]

\* #[derive(Serialize)] for Toast, and serde_json::json!(toasts) for Vec<Toast>.
ToastJson(toast) ==
    JObj([k \in {"message", "level"} |->
            IF k = "message" THEN JStr(toast.message) ELSE JStr(toast.level)])

ToastsJson(toasts) == JArr([i \in 1..Len(toasts) |-> ToastJson(toasts[i])])

\* serde_json::to_string and urlencoding::encode produce text; the text is
\* kept as the value it encodes, wrapped once per encoding layer.
serde_json_to_string(v) == [json_text |-> v]
urlencoding_encode(s)   == [urlencoded |-> s]

\* HeaderValue::from_str accepts visible ASCII only: no control character
\* and no byte above 127.  "caf<e9>" stands for a string with a non-ASCII
\* character.
ControlStrings      == {"line\nbreak"}
NonAsciiStrings     == {"caf<e9>"}
IllegalHeaderValues == ControlStrings \cup NonAsciiStrings
HeaderValue_from_str_ok(s) == s \notin IllegalHeaderValues

\* The strings (keys and string values) that occur in a JSON value.
RECURSIVE JsonStrings(_)
JsonStrings(v) ==
    CASE v.t = "str" -> {v.s}
      [] v.t = "arr" -> UNION {JsonStrings(v.a[i]) : i \in DOMAIN v.a}
      [] v.t = "obj" -> (DOMAIN v.o) \cup UNION {JsonStrings(v.o[k]) : k \in DOMAIN v.o}
      [] OTHER       -> {}

\* HeaderValue::from_str on text an encoder produced.  urlencoding::encode
\* emits ASCII letters, digits, "-_.~" and %XX only.  serde_json writes a
\* control character as an escape (\n, \u00XX) and a non-ASCII character
\* as it is.
HeaderValue_from_text_ok(text) ==
    IF "urlencoded" \in DOMAIN text
    THEN TRUE
    ELSE JsonStrings(text.json_text) \cap NonAsciiStrings = {}

\* urlencoding::decode and serde_json::from_str, on text of the encoders.
\* Text without a %XX escape decodes to itself; text that is not JSON text
\* does not parse.
urlencoding_decode(text) ==
    IF "urlencoded" \in DOMAIN text THEN text.urlencoded ELSE text
serde_json_from_str(text) ==
    IF "json_text" \in DOMAIN text THEN text.json_text ELSE [t |-> "invalid"]

\* A Set-Cookie header value: cookie.to_string() of the cookie record.
CookieHV(c) == [cookie |-> c]

\* BaseResponse::default()
BaseResponse_default ==
    [headers |-> [n \in {} |-> HV("")], cookies |-> << >>, toasts |-> << >>]

RECURSIVE append_cookies(_, _)
append_cookies(h, cookies) ==
    IF cookies = << >> THEN h
    ELSE append_cookies(hm_append(h, "set-cookie", CookieHV(Head(cookies))),
                        Tail(cookies))

\* BaseResponse::apply_to_response: insert every header, append every cookie.
apply_to_response(base, response) ==
    LET inserted ==
            [x \in (DOMAIN response.headers) \cup (DOMAIN base.headers) |->
                IF x \in DOMAIN base.headers
                THEN << base.headers[x] >>
                ELSE response.headers[x]]
    IN [response EXCEPT !.headers = append_cookies(inserted, base.cookies)]

\* Mutant of toast_cookie: the JSON text is the cookie value, not URL-encoded.
toast_cookie_unencoded(toasts) ==
    [name      |-> "silcrow_toasts",
     value     |-> serde_json_to_string(ToastsJson(toasts)),
     path      |-> "/",
     same_site |-> "Lax",
     max_age   |-> 5]

\* The cookie apply_toast_cookies builds.
toast_cookie(toasts) ==
    [name      |-> "silcrow_toasts",
     value     |-> urlencoding_encode(serde_json_to_string(ToastsJson(toasts))),
     path      |-> "/",
     same_site |-> "Lax",
     max_age   |-> 5]

\* BaseResponse::apply_toast_cookies.  cookie.to_string() is the name, "=",
\* the value and the attributes: it is a legal header value iff the value is.
apply_toast_cookies(base, response) ==
    IF base.toasts # << >>
    THEN LET cookie == toast_cookie(base.toasts) IN
         IF HeaderValue_from_text_ok(cookie.value)
         THEN [response EXCEPT !.headers = hm_append(@, "set-cookie", CookieHV(cookie))]
         ELSE response
    ELSE response

\* Constructors html(), json(), navigate().
\* The field holding the body is named per wrapper (HtmlResponse.data is
\* markup, JsonResponse.data a serializable value, NavigateResponse.path).
html(data)     == [kind |-> "html", markup |-> data, base |-> BaseResponse_default]
json(data)     == [kind |-> "json", data |-> data, base |-> BaseResponse_default]
navigate(path) == [kind |-> "navigate", path |-> path, base |-> BaseResponse_default]

\* impl IntoResponse for HtmlResponse
HtmlResponse_into_response(self) ==
    apply_toast_cookies(self.base, apply_to_response(self.base, AxumHtml(self.markup)))

\* Mutant of merge_toasts: a payload that is not an object is left as it is.
merge_toasts_objects_only(json_payload, toasts) ==
    IF toasts # << >> /\ json_payload.t = "obj"
    THEN JObj(MapInsert(json_payload.o, "_toasts", ToastsJson(toasts)))
    ELSE json_payload

\* The toast merge of JsonResponse::into_response (response.rs 194-207).
merge_toasts(json_payload, toasts) ==
    IF toasts # << >>
    THEN IF json_payload.t = "obj"
         THEN JObj(MapInsert(json_payload.o, "_toasts", ToastsJson(toasts)))
         ELSE JObj([k \in {"data", "_toasts"} |->
                      IF k = "data" THEN json_payload ELSE ToastsJson(toasts)])
    ELSE json_payload

\* Mutant of JsonResponse::into_response: the toast cookie is set as well.
JsonResponse_into_response_with_cookie(self) ==
    LET ser == to_value(self.data) IN
    IF ~ser.ok
    THEN StatusOnly(500)
    ELSE apply_toast_cookies(self.base,
            apply_to_response(self.base,
                              AxumJson(merge_toasts(ser.value, self.base.toasts))))

\* Mutant of JsonResponse::into_response: a payload that fails to serialize
\* is sent as null.
JsonResponse_into_response_null_on_error(self) ==
    LET ser == to_value(self.data) IN
    apply_to_response(self.base, AxumJson(merge_toasts(ser.value, self.base.toasts)))

\* impl IntoResponse for JsonResponse<T>
JsonResponse_into_response(self) ==
    LET ser == to_value(self.data) IN
    IF ~ser.ok
    THEN StatusOnly(500)
    ELSE apply_to_response(self.base,
                           AxumJson(merge_toasts(ser.value, self.base.toasts)))

\* impl IntoResponse for NavigateResponse
NavigateResponse_into_response(self) ==
    LET response == [AxumRedirect(self.path) EXCEPT !.status = 303]
    IN apply_toast_cookies(self.base, apply_to_response(self.base, response))

into_response(self) ==
    CASE self.kind = "html"     -> HtmlResponse_into_response(self)
      [] self.kind = "json"     -> JsonResponse_into_response(self)
      [] self.kind = "navigate" -> NavigateResponse_into_response(self)

(***************************************************************************)
(* extract.rs: the Accept header, the extractor and preferred_mode.        *)
(*                                                                         *)
(* An Accept header is absent, present with bytes to_str() rejects         *)
(* ("opaque"), or text: a comma separated list of media ranges, each a     *)
(* media type with a quality value q (in tenths; 10 is the default 1.0).   *)
(***************************************************************************)
MediaTypes == {"text/html", "application/json", "*/*", "image/png",
               "application/json-seq"}
QValues    == {0, 8, 9, 10}
MediaRange == [mt : MediaTypes, q : QValues]

RangeSeqs == UNION {[1..n -> MediaRange] : n \in 0..MaxRanges}

AcceptHeaders ==
    {[kind |-> "absent", ranges |-> << >>], [kind |-> "opaque", ranges |-> << >>]}
    \cup {[kind |-> "text", ranges |-> r] : r \in RangeSeqs}

\* str::contains on the text of one media range "<mt>;q=<q>": the needles are
\* media type names, which occur in the text only inside the media type.
range_contains(range, needle) ==
    \/ range.mt = needle
    \/ range.mt = "application/json-seq" /\ needle = "application/json"

\* headers.get(ACCEPT).and_then(|v| v.to_str().ok()).unwrap_or("")
accept_str(headers) ==
    IF headers.accept.kind = "text" THEN headers.accept.ranges ELSE << >>

\* accept.contains(needle)
contains(accept, needle) ==
    \E i \in 1..Len(accept) : range_contains(accept[i], needle)

\* Mutant of from_request_parts: rejects a request whose Accept header is
\* missing or unreadable instead of treating it as the empty string.
from_request_parts_rejecting(headers) ==
    [tag          |-> IF headers.accept.kind = "text" THEN "Ok" ELSE "Err",
     is_silcrow   |-> headers.silcrow_target,
     accepts_html |-> contains(accept_str(headers), "text/html"),
     accepts_json |-> contains(accept_str(headers), "application/json")]

\* SilcrowRequest::from_request_parts
from_request_parts(headers) ==
    [tag          |-> "Ok",
     is_silcrow   |-> headers.silcrow_target,
     accepts_html |-> contains(accept_str(headers), "text/html"),
     accepts_json |-> contains(accept_str(headers), "application/json")]

\* Mutant of preferred_mode: a request with the Silcrow marker is answered
\* with JSON whenever it accepts JSON, whether or not it accepts HTML.
preferred_mode_marker_decides(self) ==
    IF self.is_silcrow /\ self.accepts_json THEN "Json"
    ELSE IF self.accepts_html THEN "Html"
    ELSE "Json"

\* Mutant of preferred_mode: a marked request is asked for json before html.
preferred_mode_json_first(self) ==
    IF self.is_silcrow /\ self.accepts_json THEN "Json"
    ELSE IF self.is_silcrow /\ self.accepts_html THEN "Html"
    ELSE IF self.accepts_html THEN "Html"
    ELSE "Json"

\* SilcrowRequest::preferred_mode
preferred_mode(self) ==
    IF self.is_silcrow /\ self.accepts_html THEN "Html"
    ELSE IF self.is_silcrow /\ self.accepts_json THEN "Json"
    ELSE IF self.accepts_html THEN "Html"
    ELSE "Json"

(***************************************************************************)
(* select.rs: producers, Responses and select.                             *)
(*                                                                         *)
(* A producer is the value its closure returns: Ok(markup) or Ok(value),   *)
(* or Err(e) with e an application error.                                  *)
(***************************************************************************)
Errors  == {"BAD_REQUEST", "FORBIDDEN"}
Markups == {"<p>html</p>"}
Values  == {JObj([k \in {"mode"} |-> JStr("json")])}

HtmlProducers == {[tag |-> "Ok", markup |-> m] : m \in Markups}
                 \cup {[tag |-> "Err", err |-> e] : e \in Errors}
JsonProducers == {[tag |-> "Ok", value |-> v] : v \in Values}
                 \cup {[tag |-> "Err", err |-> e] : e \in Errors}

\* Responses::new()
Responses_new == [html |-> None, json |-> None]

Ok(response) == [tag |-> "Ok", response |-> response]
Err(e)       == [tag |-> "Err", err |-> e]

\* The boxed closure of Responses::html:
\* f().await.into_pilcrow_html().map(|res| res.into_response())
call_html(f) ==
    IF f.tag = "Ok" THEN Ok(HtmlResponse_into_response(html(f.markup)))
    ELSE Err(f.err)

\* The boxed closure of Responses::json: f().await.into_pilcrow_json()
call_json(f) ==
    IF f.tag = "Ok" THEN Ok(JsonResponse_into_response(json(f.value)))
    ELSE Err(f.err)

\* Mutant of select: both registered producers are run, the preferred one's
\* result is returned.
select_eager(self, rs) ==
    LET m == preferred_mode(self)
        h == IF rs.html # None THEN << "html" >> ELSE << >>
        j == IF rs.json # None THEN << "json" >> ELSE << >>
    IN IF m = "Html"
       THEN [mode |-> m, invoked |-> h \o j,
             result |-> IF rs.html # None THEN call_html(rs.html[1])
                        ELSE Ok(StatusText(406, "HTML not provided"))]
       ELSE [mode |-> m, invoked |-> h \o j,
             result |-> IF rs.json # None THEN call_json(rs.json[1])
                        ELSE Ok(StatusText(406, "JSON not provided"))]

\* Mutant of select: a missing producer is replaced by the other mode's.
select_substituting(self, rs) ==
    LET m == preferred_mode(self) IN
    IF m = "Html"
    THEN IF rs.html # None
         THEN [mode |-> m, invoked |-> << "html" >>, result |-> call_html(rs.html[1])]
         ELSE IF rs.json # None
         THEN [mode |-> m, invoked |-> << "json" >>, result |-> call_json(rs.json[1])]
         ELSE [mode |-> m, invoked |-> << >>,
               result |-> Ok(StatusText(406, "HTML not provided"))]
    ELSE IF rs.json # None
         THEN [mode |-> m, invoked |-> << "json" >>, result |-> call_json(rs.json[1])]
         ELSE IF rs.html # None
         THEN [mode |-> m, invoked |-> << "html" >>, result |-> call_html(rs.html[1])]
         ELSE [mode |-> m, invoked |-> << >>,
               result |-> Ok(StatusText(406, "JSON not provided"))]

\* Mutant of select: a producer's error is answered with a 500 response.
select_swallowing(self, rs) ==
    LET m == preferred_mode(self)
        swallow(r) == IF r.tag = "Err" THEN Ok(StatusOnly(500)) ELSE r
    IN IF m = "Html"
       THEN IF rs.html # None
            THEN [mode |-> m, invoked |-> << "html" >>,
                  result |-> swallow(call_html(rs.html[1]))]
            ELSE [mode |-> m, invoked |-> << >>,
                  result |-> Ok(StatusText(406, "HTML not provided"))]
       ELSE IF rs.json # None
            THEN [mode |-> m, invoked |-> << "json" >>,
                  result |-> swallow(call_json(rs.json[1]))]
            ELSE [mode |-> m, invoked |-> << >>,
                  result |-> Ok(StatusText(406, "JSON not provided"))]

\* SilcrowRequest::select: the mode matched, the producers invoked in order,
\* and the value returned.
select(self, rs) ==
    LET m == preferred_mode(self) IN
    IF m = "Html"
    THEN IF rs.html # None
         THEN [mode |-> m, invoked |-> << "html" >>, result |-> call_html(rs.html[1])]
         ELSE [mode |-> m, invoked |-> << >>,
               result |-> Ok(StatusText(406, "HTML not provided"))]
    ELSE IF rs.json # None
         THEN [mode |-> m, invoked |-> << "json" >>, result |-> call_json(rs.json[1])]
         ELSE [mode |-> m, invoked |-> << >>,
               result |-> Ok(StatusText(406, "JSON not provided"))]

Count(seq, x) == Cardinality({i \in 1..Len(seq) : seq[i] = x})

(***************************************************************************)
(* The state machine of one request.                                       *)
(***************************************************************************)
\* A connection and what was done on it; no connection.
Connection(state) == [net |-> state, wire |-> << >>, sends |-> << >>]
NoConnection == Connection("off")

\* No WebSocket connection.
WsIdle ==
    /\ ws_pc = "off"
    /\ inbound = << >>
    /\ rd = 0
    /\ net = "open"
    /\ returns = << >>
    /\ wire = << >>
    /\ sends = << >>
    /\ conn2 = NoConnection

\* No server-sent event.
SseIdle ==
    /\ sse_pc = "off"
    /\ sse_in = None
    /\ sse_evt = None
    /\ sse_out = None

RespIdle ==
    /\ rpc = "idle"
    /\ resp = None
    /\ encoded = None
    /\ toast_log = << >>
    /\ header_log = [n \in {} |-> HV("")]
    /\ last_call = "applied"

InitSelect ==
    /\ pc = "parts"
    /\ parts \in [silcrow_target : BOOLEAN, accept : AcceptHeaders]
    /\ req = None
    /\ responses = Responses_new
    /\ html_calls = 0
    /\ json_calls = 0
    /\ mode = "None"
    /\ outcome = None
    /\ arms = None
    /\ RespIdle
    /\ WsIdle
    /\ SseIdle

\* The extractor runs on the request parts before the handler body.
Extract ==
    /\ pc = "parts"
    /\ req' = Some(from_request_parts(parts))
    /\ pc' = "handler"
    /\ UNCHANGED <<parts, responses, html_calls, json_calls, mode, outcome, arms, respVars, streamVars>>

\* Responses::html(f)
Responses_html ==
    /\ pc = "handler"
    /\ \E f \in HtmlProducers : responses' = [responses EXCEPT !.html = Some(f)]
    /\ UNCHANGED <<pc, parts, req, html_calls, json_calls, mode, outcome, arms, respVars, streamVars>>

\* Responses::json(f)
Responses_json ==
    /\ pc = "handler"
    /\ \E f \in JsonProducers : responses' = [responses EXCEPT !.json = Some(f)]
    /\ UNCHANGED <<pc, parts, req, html_calls, json_calls, mode, outcome, arms, respVars, streamVars>>

\* req.select(responses).await
Select ==
    /\ pc = "handler"
    /\ req # None /\ req[1].tag = "Ok"
    /\ LET r == select(req[1], responses) IN
        /\ mode' = r.mode
        /\ html_calls' = html_calls + Count(r.invoked, "html")
        /\ json_calls' = json_calls + Count(r.invoked, "json")
        /\ outcome' = Some(r.result)
    /\ pc' = "done"
    /\ UNCHANGED <<parts, req, responses, arms, respVars, streamVars>>

NextSelect == Extract \/ Responses_html \/ Responses_json \/ Select

SpecSelect == InitSelect /\ [][NextSelect]_vars

(***************************************************************************)
(* Properties of negotiation and selection (checked under SpecSelect).     *)
(***************************************************************************)
Signal == req[1]

BothRegistered == responses.html # None /\ responses.json # None

\* C1: with both an html and a json producer registered, one select call
\* invokes the producer of the preferred mode exactly once and the other
\* producer not at all.
C1_OnlyPreferredProducerRuns ==
    (pc = "done" /\ BothRegistered) =>
        /\ mode = preferred_mode(Signal)
        /\ mode = "Html" => (html_calls = 1 /\ json_calls = 0)
        /\ mode = "Json" => (json_calls = 1 /\ html_calls = 0)

C1_Witness ==
    /\ pc = "done" /\ BothRegistered
    /\ mode = "Json" /\ json_calls = 1 /\ html_calls = 0
    /\ Signal.accepts_json

\* C2: when the resolved mode has no registered producer, select returns
\* Ok(406 Not Acceptable) and invokes no producer, also not the one
\* registered for the other mode.
C2_MissingProducerIs406 ==
    (/\ pc = "done"
     /\ \/ preferred_mode(Signal) = "Html" /\ responses.html = None
        \/ preferred_mode(Signal) = "Json" /\ responses.json = None)
    => /\ outcome[1].tag = "Ok"
       /\ outcome[1].response.status = 406
       /\ html_calls = 0
       /\ json_calls = 0

C2_Witness ==
    /\ pc = "done"
    /\ preferred_mode(Signal) = "Html"
    /\ responses.html = None /\ responses.json # None
    /\ outcome[1].tag = "Ok" /\ outcome[1].response.status = 406

SelectedProducer ==
    IF preferred_mode(Signal) = "Html" THEN responses.html ELSE responses.json

\* C3: when the selected producer returns the application error e, select
\* returns Err(e) unchanged; the producer ran once, the other producer did
\* not run, and no response stands in for the error.
C3_ProducerErrorPropagates ==
    (pc = "done" /\ SelectedProducer # None /\ SelectedProducer[1].tag = "Err")
    => /\ outcome = Some(Err(SelectedProducer[1].err))
       /\ html_calls + json_calls = 1
       /\ preferred_mode(Signal) = "Html" => json_calls = 0
       /\ preferred_mode(Signal) = "Json" => html_calls = 0

C3_Witness ==
    /\ pc = "done" /\ BothRegistered
    /\ preferred_mode(Signal) = "Html"
    /\ responses.html[1].tag = "Err" /\ responses.json[1].tag = "Ok"
    /\ outcome = Some(Err(responses.html[1].err))

\* The precedence of the specification, one row per signal
\* <<is_silcrow, accepts_html, accepts_json>>.
ModeTable ==
    [s \in BOOLEAN \X BOOLEAN \X BOOLEAN |->
        CASE s = << TRUE,  TRUE,  TRUE  >> -> "Html"
          [] s = << TRUE,  TRUE,  FALSE >> -> "Html"
          [] s = << TRUE,  FALSE, TRUE  >> -> "Json"
          [] s = << TRUE,  FALSE, FALSE >> -> "Json"
          [] s = << FALSE, TRUE,  TRUE  >> -> "Html"
          [] s = << FALSE, TRUE,  FALSE >> -> "Html"
          [] s = << FALSE, FALSE, TRUE  >> -> "Json"
          [] s = << FALSE, FALSE, FALSE >> -> "Json"]

\* C4: the mode select matches on is the one the precedence rules give for
\* the request signal, for each of the 8 signals.
C4_ModePrecedence ==
    pc = "done" =>
        mode = ModeTable[<< Signal.is_silcrow, Signal.accepts_html, Signal.accepts_json >>]

C4_Witness ==
    /\ pc = "done"
    /\ Signal.is_silcrow /\ Signal.accepts_html /\ Signal.accepts_json
    /\ mode = "Html"

\* The quality algorithm of the specification: the largest q among the
\* ranges naming the media type or the wildcard, 0 when there is none.
QOf(accept, mt) ==
    IF accept.kind # "text" THEN {}
    ELSE {accept.ranges[i].q :
            i \in {j \in 1..Len(accept.ranges) : accept.ranges[j].mt \in {mt, "*/*"}}}

MaxQ(accept, mt) ==
    IF QOf(accept, mt) = {} THEN 0
    ELSE CHOOSE q \in QOf(accept, mt) : \A r \in QOf(accept, mt) : r <= q

\* C5: accepts_html is true iff html's max-q > 0 and html's max-q >= json's
\* max-q; accepts_json is true iff json's max-q > 0.
C5_AcceptQualityValues ==
    pc # "parts" =>
        LET hq == MaxQ(parts.accept, "text/html")
            jq == MaxQ(parts.accept, "application/json")
        IN /\ Signal.accepts_html <=> (hq > 0 /\ hq >= jq)
           /\ Signal.accepts_json <=> (jq > 0)

AcceptText(ranges) == [kind |-> "text", ranges |-> ranges]

\* C6: without the marker, "text/html;q=0.9, application/json;q=1.0"
\* resolves to Json and "text/html, application/json;q=0.8" to Html.
C6_QualityExamples ==
    (pc = "done" /\ ~parts.silcrow_target) =>
        /\ parts.accept = AcceptText(<< [mt |-> "text/html", q |-> 9],
                                        [mt |-> "application/json", q |-> 10] >>)
             => mode = "Json"
        /\ parts.accept = AcceptText(<< [mt |-> "text/html", q |-> 10],
                                        [mt |-> "application/json", q |-> 8] >>)
             => mode = "Html"

\* An Accept header that names no media type the negotiation knows.
Unusable(accept) ==
    \/ accept.kind \in {"absent", "opaque"}
    \/ \A i \in 1..Len(accept.ranges) : accept.ranges[i].mt \in {"image/png", "*/*"}

\* C7: extraction returns Ok for every set of headers, a missing, unreadable
\* or unrecognised Accept header accepts neither type, and a signal that
\* accepts neither type resolves to Json with or without the marker.
C7_ResolutionIsTotal ==
    /\ pc # "parts" =>
        /\ req # None
        /\ Signal.tag = "Ok"
        /\ Unusable(parts.accept) => (~Signal.accepts_html /\ ~Signal.accepts_json)
    /\ (pc = "handler" /\ Signal.tag = "Ok") => ENABLED Select
    /\ (pc = "done" /\ ~Signal.accepts_html /\ ~Signal.accepts_json) => mode = "Json"

C7_Witness ==
    /\ pc = "done"
    /\ parts.accept.kind = "absent"
    /\ parts.silcrow_target
    /\ mode = "Json"

(***************************************************************************)
(* The state machine of one response value: a constructor, then modifiers  *)
(* of ResponseExt, then into_response.                                     *)
(***************************************************************************)
HtmlData == {"<h1>Hello</h1>"}
Paths    == {"/dashboard", "/login"}
Payloads ==
    { JObj([k \in {"ok"} |-> JBool(TRUE)]),
      JObj(EmptyMap),
      JObj([k \in {"_toasts"} |-> JStr("mine")]),
      JArr(<< JNum(1), JNum(2), JNum(3) >>),
      JStr("hi"),
      JNum(42),
      JBool(FALSE),
      JNull,
      FailingSerialize }

\* The (message, level) arguments of with_toast.  One message has a
\* non-ASCII character.
ToastArgs == { <<"Saved", "success">>, <<"caf<e9>", "info">> }

HeaderKeys      == {"x-custom", "location", "set-cookie"}
HeaderValueStrs == {"hello", "v2"} \cup ControlStrings

\* Arguments of the typed setters: selectors, URLs and paths.
SetterArgs == {"#a", "/b"} \cup NonAsciiStrings

\* Arguments of trigger_event.
EventNames == {"refresh"} \cup IllegalHeaderValues

\* The data argument of patch_target.
PatchData == { JObj([k \in {"count"} |-> JNum(42)]), FailingSerialize }

SelIdle ==
    /\ pc = "idle"
    /\ parts = [silcrow_target |-> FALSE, accept |-> [kind |-> "absent", ranges |-> << >>]]
    /\ req = None
    /\ responses = Responses_new
    /\ html_calls = 0
    /\ json_calls = 0
    /\ mode = "None"
    /\ outcome = None
    /\ arms = None

NoCalls ==
    /\ toast_log = << >>
    /\ header_log = [n \in {} |-> HV("")]
    /\ last_call = "applied"

Init ==
    /\ rpc = "new"
    /\ resp = None
    /\ encoded = None
    /\ NoCalls
    /\ SelIdle
    /\ WsIdle
    /\ SseIdle

\* html(data)
New_html ==
    /\ rpc = "new"
    /\ \E d \in HtmlData : resp' = Some(html(d))
    /\ rpc' = "building"
    /\ UNCHANGED <<encoded, logVars, selVars, streamVars>>

\* json(data)
New_json ==
    /\ rpc = "new"
    /\ \E d \in Payloads : resp' = Some(json(d))
    /\ rpc' = "building"
    /\ UNCHANGED <<encoded, logVars, selVars, streamVars>>

\* navigate(path)
New_navigate ==
    /\ rpc = "new"
    /\ \E p \in Paths : resp' = Some(navigate(p))
    /\ rpc' = "building"
    /\ UNCHANGED <<encoded, logVars, selVars, streamVars>>

\* self.base_mut().headers.insert(name, val)
headers_insert(base, name, val) ==
    [base EXCEPT !.headers =
        [x \in (DOMAIN base.headers) \cup {name} |->
            IF x = name THEN val ELSE base.headers[x]]]

\* Mutant of with_header: an illegal value removes the header.
with_header_clearing(base, key, value) ==
    IF HeaderValue_from_str_ok(value)
    THEN headers_insert(base, key, HV(value))
    ELSE [base EXCEPT !.headers = [x \in (DOMAIN base.headers) \ {key} |-> base.headers[x]]]

\* ResponseExt::with_header(key, value) on the BaseResponse of the value
with_header(base, key, value) ==
    IF HeaderValue_from_str_ok(value)
    THEN [base EXCEPT !.headers =
            [x \in (DOMAIN base.headers) \cup {key} |->
                IF x = key THEN HV(value) ELSE base.headers[x]]]
    ELSE base

\* ResponseExt::no_cache
no_cache(base) == with_header(base, "silcrow-cache", "no-cache")

\* Mutant of with_toast: the new toast replaces the ones already there.
with_toast_replacing(base, message, level) ==
    [base EXCEPT !.toasts = << Toast(message, level) >>]

\* ResponseExt::with_toast(message, level) on the BaseResponse of the value
with_toast(base, message, level) ==
    [base EXCEPT !.toasts = Append(@, Toast(message, level))]

\* serde_json::json!({ event_name: {} })
trigger_json(event_name) == JObj([k \in {event_name} |-> JObj(EmptyMap)])

\* ResponseExt::trigger_event
trigger_event(base, event_name) ==
    LET text == serde_json_to_string(trigger_json(event_name)) IN
    IF HeaderValue_from_text_ok(text)
    THEN headers_insert(base, "silcrow-trigger", text)
    ELSE base

\* Mutant of retarget: a selector already set is kept.
retarget_first_wins(base, selector) ==
    IF HeaderValue_from_str_ok(selector) /\ "silcrow-retarget" \notin DOMAIN base.headers
    THEN headers_insert(base, "silcrow-retarget", HV(selector))
    ELSE base

\* ResponseExt::retarget
retarget(base, selector) ==
    IF HeaderValue_from_str_ok(selector)
    THEN headers_insert(base, "silcrow-retarget", HV(selector))
    ELSE base

\* Mutant of push_history: pushing a URL also takes back a retarget set
\* before.
push_history_resetting_retarget(base, url) ==
    IF HeaderValue_from_str_ok(url)
    THEN [base EXCEPT !.headers =
            [x \in ((DOMAIN base.headers) \ {"silcrow-retarget"}) \cup {"silcrow-push"} |->
                IF x = "silcrow-push" THEN HV(url) ELSE base.headers[x]]]
    ELSE base

\* ResponseExt::push_history
push_history(base, url) ==
    IF HeaderValue_from_str_ok(url)
    THEN headers_insert(base, "silcrow-push", HV(url))
    ELSE base

\* serde_json::json!({ "target": selector, "data": data }), data serialized
patch_json(selector, value) ==
    JObj([k \in {"target", "data"} |-> IF k = "target" THEN JStr(selector) ELSE value])

\* ResponseExt::patch_target, for data that serializes (json! unwraps the
\* result of to_value: see Patch_target for data that does not).
patch_target(base, selector, data) ==
    LET text == serde_json_to_string(patch_json(selector, to_value(data).value)) IN
    IF HeaderValue_from_text_ok(text)
    THEN headers_insert(base, "silcrow-patch", text)
    ELSE base

\* ResponseExt::invalidate_target
invalidate_target(base, selector) ==
    IF HeaderValue_from_str_ok(selector)
    THEN headers_insert(base, "silcrow-invalidate", HV(selector))
    ELSE base

\* ResponseExt::client_navigate
client_navigate(base, path) ==
    IF HeaderValue_from_str_ok(path)
    THEN headers_insert(base, "silcrow-navigate", HV(path))
    ELSE base

\* ResponseExt::sse
sse(base, path) ==
    IF HeaderValue_from_str_ok(path)
    THEN headers_insert(base, "silcrow-sse", HV(path))
    ELSE base

\* The methods of the trait ResponseExt that set a header.
ResponseExt_setters ==
    {"with_header", "no_cache", "trigger_event", "retarget", "push_history",
     "patch_target", "invalidate_target", "client_navigate", "sse"}

\* The modifier calls of the model keep a response within MaxModifiers
\* header names and toasts.
Fits(base) == Cardinality(DOMAIN base.headers) + Len(base.toasts) <= MaxModifiers

\* History: a call gave the header `name` the value `value`.  Only a legal
\* value is logged; an illegal one marks the call as dropped.
Logged(name, value, legal) ==
    /\ header_log' = IF legal
                     THEN [x \in (DOMAIN header_log) \cup {name} |->
                             IF x = name THEN value ELSE header_log[x]]
                     ELSE header_log
    /\ last_call' = IF ~legal THEN "dropped"
                    ELSE IF name \in DOMAIN header_log /\ header_log[name] # value
                         THEN "replaced"
                         ELSE "applied"
    /\ UNCHANGED toast_log

With_header ==
    /\ rpc = "building"
    /\ \E key \in HeaderKeys, value \in HeaderValueStrs :
          /\ Fits(with_header(resp[1].base, key, value))
          /\ resp' = Some([resp[1] EXCEPT !.base = with_header(@, key, value)])
          /\ Logged(key, HV(value), value \notin IllegalHeaderValues)
    /\ UNCHANGED <<rpc, encoded, selVars, streamVars>>

With_toast ==
    /\ rpc = "building"
    /\ Len(toast_log) < MaxToasts
    /\ \E t \in ToastArgs :
          /\ Fits(with_toast(resp[1].base, t[1], t[2]))
          /\ resp' = Some([resp[1] EXCEPT !.base = with_toast(@, t[1], t[2])])
          /\ toast_log' = Append(toast_log, Toast(t[1], t[2]))
    /\ last_call' = "applied"
    /\ UNCHANGED <<rpc, encoded, header_log, selVars, streamVars>>

No_cache ==
    /\ rpc = "building"
    /\ Fits(no_cache(resp[1].base))
    /\ resp' = Some([resp[1] EXCEPT !.base = no_cache(@)])
    /\ Logged("silcrow-cache", HV("no-cache"), TRUE)
    /\ UNCHANGED <<rpc, encoded, selVars, streamVars>>

Trigger_event ==
    /\ rpc = "building"
    /\ \E event_name \in EventNames :
          /\ Fits(trigger_event(resp[1].base, event_name))
          /\ resp' = Some([resp[1] EXCEPT !.base = trigger_event(@, event_name)])
          /\ Logged("silcrow-trigger", serde_json_to_string(trigger_json(event_name)),
                    event_name \notin NonAsciiStrings)
    /\ UNCHANGED <<rpc, encoded, selVars, streamVars>>

Retarget ==
    /\ rpc = "building"
    /\ \E selector \in SetterArgs :
          /\ Fits(retarget(resp[1].base, selector))
          /\ resp' = Some([resp[1] EXCEPT !.base = retarget(@, selector)])
          /\ Logged("silcrow-retarget", HV(selector), selector \notin IllegalHeaderValues)
    /\ UNCHANGED <<rpc, encoded, selVars, streamVars>>

Push_history ==
    /\ rpc = "building"
    /\ \E url \in SetterArgs :
          /\ Fits(push_history(resp[1].base, url))
          /\ resp' = Some([resp[1] EXCEPT !.base = push_history(@, url)])
          /\ Logged("silcrow-push", HV(url), url \notin IllegalHeaderValues)
    /\ UNCHANGED <<rpc, encoded, selVars, streamVars>>

\* json! panics on data that fails to serialize: the call does not return.
Patch_target ==
    /\ rpc = "building"
    /\ \E selector \in SetterArgs, data \in PatchData :
          IF to_value(data).ok
          THEN /\ Fits(patch_target(resp[1].base, selector, data))
               /\ resp' = Some([resp[1] EXCEPT !.base = patch_target(@, selector, data)])
               /\ Logged("silcrow-patch",
                         serde_json_to_string(patch_json(selector, data)),
                         selector \notin NonAsciiStrings)
               /\ UNCHANGED rpc
          ELSE /\ rpc' = "panicked"
               /\ UNCHANGED <<resp, logVars>>
    /\ UNCHANGED <<encoded, selVars, streamVars>>

Invalidate_target ==
    /\ rpc = "building"
    /\ \E selector \in SetterArgs :
          /\ Fits(invalidate_target(resp[1].base, selector))
          /\ resp' = Some([resp[1] EXCEPT !.base = invalidate_target(@, selector)])
          /\ Logged("silcrow-invalidate", HV(selector), selector \notin IllegalHeaderValues)
    /\ UNCHANGED <<rpc, encoded, selVars, streamVars>>

Client_navigate ==
    /\ rpc = "building"
    /\ \E path \in SetterArgs :
          /\ Fits(client_navigate(resp[1].base, path))
          /\ resp' = Some([resp[1] EXCEPT !.base = client_navigate(@, path)])
          /\ Logged("silcrow-navigate", HV(path), path \notin IllegalHeaderValues)
    /\ UNCHANGED <<rpc, encoded, selVars, streamVars>>

Sse ==
    /\ rpc = "building"
    /\ \E path \in SetterArgs :
          /\ Fits(sse(resp[1].base, path))
          /\ resp' = Some([resp[1] EXCEPT !.base = sse(@, path)])
          /\ Logged("silcrow-sse", HV(path), path \notin IllegalHeaderValues)
    /\ UNCHANGED <<rpc, encoded, selVars, streamVars>>

\* IntoResponse::into_response consumes the value; resp keeps what was encoded.
Into_response ==
    /\ rpc = "building"
    /\ encoded' = Some(into_response(resp[1]))
    /\ rpc' = "encoded"
    /\ UNCHANGED <<resp, logVars, selVars, streamVars>>

Next ==
    \/ New_html
    \/ New_json
    \/ New_navigate
    \/ With_header
    \/ With_toast
    \/ Into_response

Spec == Init /\ [][Next]_vars

(***************************************************************************)
(* The same response value under every modifier of ResponseExt.  The       *)
(* constructor has run: the value is one of each kind, with a JSON payload *)
(* that serializes and one that does not.                                  *)
(***************************************************************************)
Constructed ==
    {html(d) : d \in HtmlData}
      \cup {json(JObj([k \in {"ok"} |-> JBool(TRUE)])), json(FailingSerialize)}
      \cup {navigate("/dashboard")}

InitDirectives ==
    /\ rpc = "building"
    /\ resp \in {Some(r) : r \in Constructed}
    /\ encoded = None
    /\ NoCalls
    /\ SelIdle
    /\ WsIdle
    /\ SseIdle

NextDirectives ==
    \/ With_header
    \/ With_toast
    \/ No_cache
    \/ Trigger_event
    \/ Retarget
    \/ Push_history
    \/ Patch_target
    \/ Invalidate_target
    \/ Client_navigate
    \/ Sse
    \/ Into_response

SpecDirectives == InitDirectives /\ [][NextDirectives]_vars


(***************************************************************************)
(* Properties of the encoders (checked under Spec).                        *)
(***************************************************************************)
Built == resp[1]
Sent  == encoded[1]

\* The body carries a _toasts field holding the given toast sequence.
ToastsInBody(response, toasts) ==
    /\ response.body.kind = "json"
    /\ response.body.json.t = "obj"
    /\ "_toasts" \in DOMAIN response.body.json.o
    /\ response.body.json.o["_toasts"] = ToastsJson(toasts)

\* The Set-Cookie values of the response that are silcrow_toasts cookies.
ToastCookies(response) ==
    LET all == hm_get_all(response.headers, "set-cookie") IN
    {i \in 1..Len(all) :
        "cookie" \in DOMAIN all[i] /\ all[i].cookie.name = "silcrow_toasts"}

ExactlyOneToastChannel ==
    /\ Built.kind = "json" =>
         /\ ToastsInBody(Sent, Built.base.toasts)
         /\ ToastCookies(Sent) = {}
    /\ Built.kind \in {"html", "navigate"} =>
         /\ Cardinality(ToastCookies(Sent)) = 1
         /\ ~ToastsInBody(Sent, Built.base.toasts)

\* C8 as stated: every encoded response built with a non-empty toast sequence
\* carries the toasts through exactly one channel, the _toasts field of a JSON
\* body or a single silcrow_toasts cookie of an HTML or Navigate response.
C8_ToastsAlwaysTravel ==
    (rpc = "encoded" /\ Built.base.toasts # << >>) => ExactlyOneToastChannel

\* C8 amended: the same, for every response except a JsonResponse whose
\* payload fails to serialize (that one encodes to a bare 500).
C8_ToastsTravelUnlessSerializationFails ==
    (/\ rpc = "encoded"
     /\ Built.base.toasts # << >>
     /\ Built.kind = "json" => to_value(Built.data).ok)
    => ExactlyOneToastChannel

C8_Witness ==
    /\ rpc = "encoded"
    /\ Built.kind = "json"
    /\ Len(Built.base.toasts) = 2
    /\ ToastsInBody(Sent, Built.base.toasts)
    /\ ToastCookies(Sent) = {}

\* C9: for a payload that serializes to a JSON object and a non-empty toast
\* sequence, the encoded body is an object holding every field of the payload
\* with its original value, and _toasts holding the toast sequence.
C9_ObjectMergeKeepsEveryField ==
    (/\ rpc = "encoded"
     /\ Built.kind = "json"
     /\ to_value(Built.data).ok
     /\ to_value(Built.data).value.t = "obj"
     /\ Built.base.toasts # << >>)
    => /\ ToastsInBody(Sent, Built.base.toasts)
       /\ \A k \in DOMAIN Built.data.o :
            /\ k \in DOMAIN Sent.body.json.o
            /\ Sent.body.json.o[k] = Built.data.o[k]

\* C10: for a payload that serializes to a value that is not an object and a
\* non-empty toast sequence, the body is exactly {"data": value, "_toasts":
\* toasts}; with no toasts the body is the serialized payload itself.
C10_NonObjectWrapAndPassThrough ==
    (/\ rpc = "encoded"
     /\ Built.kind = "json"
     /\ to_value(Built.data).ok)
    => LET value  == to_value(Built.data).value
           toasts == Built.base.toasts
       IN /\ (value.t # "obj" /\ toasts # << >>) =>
                /\ Sent.body.kind = "json"
                /\ Sent.body.json.t = "obj"
                /\ DOMAIN Sent.body.json.o = {"data", "_toasts"}
                /\ Sent.body.json.o["data"] = value
                /\ Sent.body.json.o["_toasts"] = ToastsJson(toasts)
          /\ toasts = << >> => Sent.body = JsonBody(value)

C10_Witness ==
    /\ rpc = "encoded"
    /\ Built.kind = "json"
    /\ Built.data.t = "arr"
    /\ Built.base.toasts # << >>
    /\ DOMAIN Sent.body.json.o = {"data", "_toasts"}
    /\ Sent.body.json.o["data"] = Built.data

(***************************************************************************)
(* Properties of the modifiers (checked under SpecDirectives).             *)
(***************************************************************************)
\* The toast arrays an encoded response carries: the _toasts field of a JSON
\* object body, and the decoded value of every silcrow_toasts cookie.
EncodedToastArrays(response) ==
    LET all == hm_get_all(response.headers, "set-cookie") IN
    {response.body.json.o["_toasts"] :
        x \in IF /\ response.body.kind = "json"
                 /\ response.body.json.t = "obj"
                 /\ "_toasts" \in DOMAIN response.body.json.o
              THEN {1} ELSE {}}
    \cup {serde_json_from_str(urlencoding_decode(all[i].cookie.value)) :
            i \in ToastCookies(response)}

\* The JSON array with one {message, level} object per logged call, in order.
IsArrayOfCalls(array, calls) ==
    /\ array.t = "arr"
    /\ Len(array.a) = Len(calls)
    /\ \A i \in 1..Len(calls) :
          /\ array.a[i].t = "obj"
          /\ DOMAIN array.a[i].o = {"message", "level"}
          /\ array.a[i].o["message"] = JStr(calls[i].message)
          /\ array.a[i].o["level"] = JStr(calls[i].level)

C12_ToastCookieOfHtmlAndNavigate ==
    (rpc = "encoded" /\ Built.kind \in {"html", "navigate"}) =>
        LET all     == hm_get_all(Sent.headers, "set-cookie")
            cookies == ToastCookies(Sent)
        IN /\ (cookies # {}) <=> (Built.base.toasts # << >>)
           /\ Cardinality(cookies) <= 1
           /\ \A i \in cookies :
                 /\ all[i].cookie.path = "/"
                 /\ all[i].cookie.same_site = "Lax"
                 /\ all[i].cookie.max_age \in 1..60
                 /\ IsArrayOfCalls(
                        serde_json_from_str(urlencoding_decode(all[i].cookie.value)),
                        Built.base.toasts)
           /\ Built.kind = "html" => Sent.body = TextBody(Built.markup)
           /\ Built.kind = "navigate" => Sent.body = EmptyBody

C12_Witness ==
    /\ rpc = "encoded"
    /\ Built.kind = "navigate"
    /\ Len(Built.base.toasts) = 2
    /\ \E i \in 1..2 : Built.base.toasts[i].message \in NonAsciiStrings
    /\ Cardinality(ToastCookies(Sent)) = 1
    /\ Len(hm_get_all(Sent.headers, "set-cookie")) = 2

\* C13: for every path p and every sequence of modifier calls on navigate(p)
\* (with_header with any name, toasts, any directive setter), the encoded
\* response has status 303 and exactly one Location header, equal to p.
C13_NavigateIs303ToPath ==
    (rpc = "encoded" /\ Built.kind = "navigate") =>
        /\ Sent.status = 303
        /\ hm_get_all(Sent.headers, "location") = << HV(Built.path) >>

\* C14: a JsonResponse whose payload fails to serialize encodes, whatever
\* modifiers were applied, to a response with status 500 and an empty body:
\* no JSON body, partial or garbled, and no part of the failed value.
C14_SerializationFailureIs500 ==
    (rpc = "encoded" /\ Built.kind = "json" /\ ~to_value(Built.data).ok) =>
        /\ Sent.status = 500
        /\ Sent.body = EmptyBody

C14_Witness ==
    /\ rpc = "encoded"
    /\ Built.kind = "json"
    /\ ~to_value(Built.data).ok
    /\ Built.base.toasts # << >>
    /\ DOMAIN Built.base.headers # {}
    /\ Sent.status = 500

\* The status a response value encodes to when nothing went wrong with it.
NormalStatus(self) ==
    CASE self.kind = "navigate" -> 303
      [] self.kind = "json" /\ ~to_value(self.data).ok -> 500
      [] OTHER -> 200

\* C15: with_header and every typed setter fail closed on an illegal header
\* value.  A step that is such a call leaves the response value as it was:
\* the headers (a value set earlier under the name included), the cookies and
\* the toasts; and a response whose latest modifier call was dropped still
\* encodes, with its normal status and with every header set before.
C15_IllegalValueFailsClosed ==
    /\ [][last_call' = "dropped" => resp' = resp]_vars
    /\ [](rpc = "encoded" /\ last_call = "dropped" =>
            /\ Sent.status = NormalStatus(Built)
            /\ Sent.status # 500 =>
                 \A n \in DOMAIN Built.base.headers :
                     \E i \in DOMAIN hm_get_all(Sent.headers, n) :
                         hm_get_all(Sent.headers, n)[i] = Built.base.headers[n])

C15_Witness ==
    /\ rpc = "encoded"
    /\ last_call = "dropped"
    /\ Built.kind = "html"
    /\ Cardinality(DOMAIN Built.base.headers) = 2
    /\ Built.base.toasts # << >>
    /\ Sent.status = 200

\* The values the encoded response carries under every name of the log are
\* exactly the logged value.
OneValuePerLoggedName ==
    \A n \in DOMAIN header_log : hm_get_all(Sent.headers, n) = << header_log[n] >>

\* C16 as stated: headers are last-write-wins.  After any calls of a setter,
\* or of with_header with one name, with legal values, the encoded response
\* carries exactly one value under the name, the argument of the last call;
\* toasts accumulate.
C16_LastWriteWins ==
    rpc = "encoded" =>
        /\ OneValuePerLoggedName
        /\ Len(Built.base.toasts) = Len(toast_log)

\* C16 amended: the same, except that a JsonResponse whose payload fails to
\* serialize encodes to a 500 without any header, and that under set-cookie
\* an HTML or Navigate response with toasts carries the value of the last
\* with_header call followed by the toast cookie.
C16_LastWriteWinsWhereHeadersAreSent ==
    (rpc = "encoded" /\ ~(Built.kind = "json" /\ ~to_value(Built.data).ok)) =>
        /\ \A n \in DOMAIN header_log :
              IF /\ n = "set-cookie"
                 /\ Built.kind \in {"html", "navigate"}
                 /\ Built.base.toasts # << >>
              THEN hm_get_all(Sent.headers, n) =
                      << header_log[n], CookieHV(toast_cookie(Built.base.toasts)) >>
              ELSE hm_get_all(Sent.headers, n) = << header_log[n] >>
        /\ Len(Built.base.toasts) = Len(toast_log)

C16_Witness ==
    /\ rpc = "encoded"
    /\ last_call = "replaced"
    /\ "silcrow-retarget" \in DOMAIN header_log
    /\ hm_get_all(Sent.headers, "silcrow-retarget") = << header_log["silcrow-retarget"] >>
    /\ Len(toast_log) = 2

\* The directive setters C17 lists, each with its reserved header name.
ReservedHeader ==
    [no_cache          |-> "silcrow-cache",
     trigger_event     |-> "silcrow-trigger",
     retarget          |-> "silcrow-retarget",
     push_history      |-> "silcrow-push",
     patch_target      |-> "silcrow-patch",
     invalidate_target |-> "silcrow-invalidate",
     client_navigate   |-> "silcrow-navigate",
     sse               |-> "silcrow-sse",
     ws                |-> "silcrow-ws"]

\* A call of the setter `op` of ResponseExt on base, with a string argument
\* (patch_target with the data {"count": 42}); no_cache takes no argument.
SetterCall(op, base, arg) ==
    CASE op = "no_cache"          -> no_cache(base)
      [] op = "trigger_event"     -> trigger_event(base, arg)
      [] op = "retarget"          -> retarget(base, arg)
      [] op = "push_history"      -> push_history(base, arg)
      [] op = "patch_target"      -> patch_target(base, arg, JObj([k \in {"count"} |-> JNum(42)]))
      [] op = "invalidate_target" -> invalidate_target(base, arg)
      [] op = "client_navigate"   -> client_navigate(base, arg)
      [] op = "sse"               -> sse(base, arg)

\* The header value C17 gives the setter for a string argument.
DirectiveValue(op, arg) ==
    CASE op = "no_cache"      -> HV("no-cache")
      [] op = "trigger_event" -> serde_json_to_string(JObj([k \in {arg} |-> JObj(EmptyMap)]))
      [] op = "patch_target"  ->
            serde_json_to_string(
                JObj([k \in {"target", "data"} |->
                        IF k = "target" THEN JStr(arg)
                        ELSE JObj([c \in {"count"} |-> JNum(42)])]))
      [] OTHER                -> HV(arg)

\* C17: each of the nine directive setters (no_cache, trigger_event, retarget,
\* push_history, patch_target, invalidate_target, client_navigate, sse, ws) is
\* a setter of the response value, of whatever kind, and a call with a legal
\* argument writes exactly its reserved header name: that name gets the
\* directive value (the argument verbatim for the string-valued ones), every
\* other header, the cookies and the toasts stay as they were.
C17_SetterWritesItsReservedHeader ==
    rpc = "building" =>
        \A op \in DOMAIN ReservedHeader :
            /\ op \in ResponseExt_setters
            /\ \A arg \in {"#a", "/b"} :
                  LET before == Built.base
                      after  == SetterCall(op, before, arg)
                      name   == ReservedHeader[op]
                  IN /\ DOMAIN after.headers = (DOMAIN before.headers) \cup {name}
                     /\ after.headers[name] = DirectiveValue(op, arg)
                     /\ \A n \in (DOMAIN before.headers) \ {name} :
                            after.headers[n] = before.headers[n]
                     /\ after.cookies = before.cookies
                     /\ after.toasts = before.toasts

(***************************************************************************)
(* ws.rs: WsEvent, its JSON form, and WsStream over an axum WebSocket.     *)
(*                                                                         *)
(* A WsEvent is a record tagged by variant.  Text is kept as in            *)
(* response.rs: JSON text is the value it denotes; text that is not JSON   *)
(* is a record with the field raw.                                         *)
(***************************************************************************)
Patch(target, data)   == [variant |-> "Patch", target |-> target, data |-> data]
Html(target, markup)  == [variant |-> "Html", target |-> target, markup |-> markup]
Invalidate(target)    == [variant |-> "Invalidate", target |-> target]
Navigate(path)        == [variant |-> "Navigate", path |-> path]
Custom(event, data)   == [variant |-> "Custom", event |-> event, data |-> data]

\* WsEvent::patch, html, invalidate, navigate, custom
WsEvent_patch(data, target) ==
    Patch(target, IF to_value(data).ok THEN to_value(data).value ELSE JNull)
WsEvent_html(markup, target) == Html(target, markup)
WsEvent_invalidate(target)   == Invalidate(target)
WsEvent_navigate(path)       == Navigate(path)
WsEvent_custom(event, data) ==
    Custom(event, IF to_value(data).ok THEN to_value(data).value ELSE JNull)

\* Mutant of the Serialize impl: the name of a custom event is written to
\* the field "name".
WsEvent_serialize_custom_name(e) ==
    CASE e.variant = "Patch" ->
            JObj([k \in {"type", "target", "data"} |->
                    CASE k = "type" -> JStr("patch")
                      [] k = "target" -> JStr(e.target)
                      [] k = "data" -> e.data])
      [] e.variant = "Html" ->
            JObj([k \in {"type", "target", "markup"} |->
                    CASE k = "type" -> JStr("html")
                      [] k = "target" -> JStr(e.target)
                      [] k = "markup" -> JStr(e.markup)])
      [] e.variant = "Invalidate" ->
            JObj([k \in {"type", "target"} |->
                    IF k = "type" THEN JStr("invalidate") ELSE JStr(e.target)])
      [] e.variant = "Navigate" ->
            JObj([k \in {"type", "path"} |->
                    IF k = "type" THEN JStr("navigate") ELSE JStr(e.path)])
      [] e.variant = "Custom" ->
            JObj([k \in {"type", "name", "data"} |->
                    CASE k = "type" -> JStr("custom")
                      [] k = "name" -> JStr(e.event)
                      [] k = "data" -> e.data])

\* #[derive(Serialize)] #[serde(tag = "type", rename_all = "snake_case")]
WsEvent_serialize(e) ==
    CASE e.variant = "Patch" ->
            JObj([k \in {"type", "target", "data"} |->
                    CASE k = "type" -> JStr("patch")
                      [] k = "target" -> JStr(e.target)
                      [] k = "data" -> e.data])
      [] e.variant = "Html" ->
            JObj([k \in {"type", "target", "markup"} |->
                    CASE k = "type" -> JStr("html")
                      [] k = "target" -> JStr(e.target)
                      [] k = "markup" -> JStr(e.markup)])
      [] e.variant = "Invalidate" ->
            JObj([k \in {"type", "target"} |->
                    IF k = "type" THEN JStr("invalidate") ELSE JStr(e.target)])
      [] e.variant = "Navigate" ->
            JObj([k \in {"type", "path"} |->
                    IF k = "type" THEN JStr("navigate") ELSE JStr(e.path)])
      [] e.variant = "Custom" ->
            JObj([k \in {"type", "event", "data"} |->
                    CASE k = "type" -> JStr("custom")
                      [] k = "event" -> JStr(e.event)
                      [] k = "data" -> e.data])

\* Result<WsEvent, serde_json::Error>
DeOk(e) == [ok |-> TRUE, event |-> e]
DeErr   == [ok |-> FALSE]

\* The object has the field, and it holds a string.
HasStr(o, k) == k \in DOMAIN o /\ o[k].t = "str"

\* Mutant of the Deserialize impl: the data of a patch or custom event is
\* not read (it is null).
WsEvent_deserialize_dropping_data(v) ==
    IF v.t # "obj" THEN DeErr
    ELSE IF ~HasStr(v.o, "type") THEN DeErr
    ELSE LET o == v.o  tag == v.o["type"].s IN
         CASE tag = "patch" /\ HasStr(o, "target") ->
                DeOk(Patch(o["target"].s, JNull))
           [] tag = "html" /\ HasStr(o, "target") /\ HasStr(o, "markup") ->
                DeOk(Html(o["target"].s, o["markup"].s))
           [] tag = "invalidate" /\ HasStr(o, "target") ->
                DeOk(Invalidate(o["target"].s))
           [] tag = "navigate" /\ HasStr(o, "path") ->
                DeOk(Navigate(o["path"].s))
           [] tag = "custom" /\ HasStr(o, "event") ->
                DeOk(Custom(o["event"].s, JNull))
           [] OTHER -> DeErr

\* #[derive(Deserialize)] with the same attributes: the value must be an
\* object whose "type" names a variant and that has every field of the
\* variant, strings where the field is a String; other fields are ignored.
WsEvent_deserialize(v) ==
    IF v.t # "obj" THEN DeErr
    ELSE IF ~HasStr(v.o, "type") THEN DeErr
    ELSE LET o == v.o  tag == v.o["type"].s IN
         CASE tag = "patch" /\ HasStr(o, "target") /\ "data" \in DOMAIN o ->
                DeOk(Patch(o["target"].s, o["data"]))
           [] tag = "html" /\ HasStr(o, "target") /\ HasStr(o, "markup") ->
                DeOk(Html(o["target"].s, o["markup"].s))
           [] tag = "invalidate" /\ HasStr(o, "target") ->
                DeOk(Invalidate(o["target"].s))
           [] tag = "navigate" /\ HasStr(o, "path") ->
                DeOk(Navigate(o["path"].s))
           [] tag = "custom" /\ HasStr(o, "event") /\ "data" \in DOMAIN o ->
                DeOk(Custom(o["event"].s, o["data"]))
           [] OTHER -> DeErr

\* serde_json::to_string(&event) and serde_json::from_str::<WsEvent>(&text)
WsEvent_to_string(e)   == serde_json_to_string(WsEvent_serialize(e))
WsEvent_from_str(text) == WsEvent_deserialize(serde_json_from_str(text))

\* axum::extract::ws::Message
Text(text) == [frame |-> "text", text |-> text]
Binary     == [frame |-> "binary"]
Ping       == [frame |-> "ping"]
Pong       == [frame |-> "pong"]
Close      == [frame |-> "close"]

\* Option<Result<WsEvent, WsRecvError>>
RecvNone       == [ret |-> "None"]
RecvOk(e)      == [ret |-> "Ok", event |-> e]
RecvErr(error) == [ret |-> "Err", error |-> error]

\* The loop of WsStream::recv goes round again.
Continue == [ret |-> "continue"]

\* Mutant of recv_message: a ping or pong frame is reported as NonText, as
\* the comment on WsRecvError::NonText has it.
recv_message_surfacing_ping(msg) ==
    CASE msg.frame = "text" ->
            LET r == WsEvent_from_str(msg.text) IN
            IF r.ok THEN RecvOk(r.event) ELSE RecvErr("Deserialize")
      [] msg.frame = "close"            -> RecvErr("Closed")
      [] msg.frame \in {"ping", "pong"} -> RecvErr("NonText")
      [] msg.frame = "binary"           -> RecvErr("NonText")

\* Mutant of recv_message: a binary frame is skipped, as a ping is.
recv_message_skipping_binary(msg) ==
    CASE msg.frame = "text" ->
            LET r == WsEvent_from_str(msg.text) IN
            IF r.ok THEN RecvOk(r.event) ELSE RecvErr("Deserialize")
      [] msg.frame = "close"            -> RecvErr("Closed")
      [] msg.frame \in {"ping", "pong"} -> Continue
      [] msg.frame = "binary"           -> Continue

\* The match on Some(Ok(msg)) in WsStream::recv: what the call returns for
\* the message, or Continue.
recv_message(msg) ==
    CASE msg.frame = "text" ->
            LET r == WsEvent_from_str(msg.text) IN
            IF r.ok THEN RecvOk(r.event) ELSE RecvErr("Deserialize")
      [] msg.frame = "close"            -> RecvErr("Closed")
      [] msg.frame \in {"ping", "pong"} -> Continue
      [] msg.frame = "binary"           -> RecvErr("NonText")

\* The events the handler sends: one of each variant (a custom event whose
\* data fails to serialize holds null).
SendEvents ==
    { WsEvent_patch(JObj([k \in {"count"} |-> JNum(42)]), "#stats"),
      WsEvent_html("<p>Hi</p>", "#content"),
      WsEvent_invalidate("#user"),
      WsEvent_navigate("/dashboard"),
      WsEvent_custom("refresh", FailingSerialize) }

\* What the peer sends: text that is an event (one with a field this side
\* does not know), text that is JSON of another shape, text that is not
\* JSON, and binary, ping and pong frames.
PeerFrames ==
    { Text(WsEvent_to_string(Custom("chat", JObj([k \in {"text"} |-> JStr("hi")])))),
      Text(serde_json_to_string(
              JObj([k \in {"type", "path", "id"} |->
                      CASE k = "type" -> JStr("navigate")
                        [] k = "path" -> JStr("/inbox")
                        [] k = "id" -> JNum(7)]))),
      Text(serde_json_to_string(
              JObj([k \in {"type", "target"} |->
                      IF k = "type" THEN JStr("patch") ELSE JStr("#a")]))),
      Text([raw |-> "not json"]),
      Binary, Ping, Pong }

\* Frames received and events sent so far, on either connection.
Used == Len(inbound) + Len(sends) + Len(conn2.sends)

\* The upgrade has handed the WsStream to the handler (ws(), ws.rs 274-284).
InitWs ==
    /\ ws_pc = "idle"
    /\ inbound = << >>
    /\ rd = 0
    /\ net = "open"
    /\ returns = << >>
    /\ wire = << >>
    /\ sends = << >>
    /\ conn2 = NoConnection
    /\ SseIdle
    /\ RespIdle
    /\ SelIdle

\* The peer sends a frame.
Peer_frame ==
    /\ ws_pc # "off"
    /\ net = "open"
    /\ Used < MaxFrames
    /\ \E f \in PeerFrames : inbound' = Append(inbound, f)
    /\ UNCHANGED <<ws_pc, rd, net, returns, wire, sends, conn2, sseVars, selVars, respVars>>

\* The peer sends a close frame; nothing follows it.
Peer_close ==
    /\ ws_pc # "off"
    /\ net = "open"
    /\ Used < MaxFrames
    /\ inbound' = Append(inbound, Close)
    /\ net' = "ended"
    /\ UNCHANGED <<ws_pc, rd, returns, wire, sends, conn2, sseVars, selVars, respVars>>

\* The transport goes away: the stream ends, or reports an error.
Peer_disconnect ==
    /\ ws_pc # "off"
    /\ net = "open"
    /\ net' \in {"ended", "error"}
    /\ UNCHANGED <<ws_pc, inbound, rd, returns, wire, sends, conn2, sseVars, selVars, respVars>>

\* The handler calls recv (it stops calling once recv has returned None).
Recv_call ==
    /\ ws_pc = "idle"
    /\ IF returns = << >> THEN TRUE ELSE returns[Len(returns)].result # RecvNone
    /\ ws_pc' = "recv"
    /\ UNCHANGED <<inbound, rd, net, returns, wire, sends, conn2, sseVars, selVars, respVars>>

\* Mutant of Recv_message: after a ping or pong the loop takes the message
\* that follows as its answer and goes on to the one after it.
Recv_message_dropping_after_ping ==
    /\ ws_pc = "recv"
    /\ rd < Len(inbound)
    /\ LET result == recv_message(inbound[rd + 1]) IN
       IF result = Continue
       THEN /\ rd' = IF rd + 2 <= Len(inbound) THEN rd + 2 ELSE rd + 1
            /\ UNCHANGED <<ws_pc, returns>>
       ELSE /\ rd' = rd + 1
            /\ returns' = Append(returns, [frame |-> rd + 1, result |-> result])
            /\ ws_pc' = "idle"
    /\ UNCHANGED <<inbound, net, wire, sends, conn2, sseVars, selVars, respVars>>

\* Mutant of Recv_message: a frame that is reported as an error ends the
\* connection, a close frame being sent.
Recv_message_closing_on_error ==
    /\ ws_pc = "recv"
    /\ rd < Len(inbound)
    /\ rd' = rd + 1
    /\ LET result == recv_message(inbound[rd + 1]) IN
       IF result = Continue
       THEN UNCHANGED <<ws_pc, returns, wire, net>>
       ELSE /\ returns' = Append(returns, [frame |-> rd + 1, result |-> result])
            /\ ws_pc' = "idle"
            /\ IF result.ret = "Err"
               THEN wire' = Append(wire, Close) /\ net' = "ended"
               ELSE UNCHANGED <<wire, net>>
    /\ UNCHANGED <<inbound, sends, conn2, sseVars, selVars, respVars>>

\* One round of the loop of recv on Some(Ok(msg)).
Recv_message ==
    /\ ws_pc = "recv"
    /\ rd < Len(inbound)
    /\ rd' = rd + 1
    /\ LET result == recv_message(inbound[rd + 1]) IN
       IF result = Continue
       THEN UNCHANGED <<ws_pc, returns>>
       ELSE /\ returns' = Append(returns, [frame |-> rd + 1, result |-> result])
            /\ ws_pc' = "idle"
    /\ UNCHANGED <<inbound, net, wire, sends, conn2, sseVars, selVars, respVars>>

\* Mutant of Recv_end: Some(Err(_)) of the socket is not taken as the end,
\* the loop waits for a further message.
Recv_end_ignoring_error ==
    /\ ws_pc = "recv"
    /\ rd = Len(inbound)
    /\ net = "ended"
    /\ returns' = Append(returns, [frame |-> 0, result |-> RecvNone])
    /\ ws_pc' = "idle"
    /\ UNCHANGED <<inbound, rd, net, wire, sends, conn2, sseVars, selVars, respVars>>

\* One round of the loop of recv on None or Some(Err(_)).
Recv_end ==
    /\ ws_pc = "recv"
    /\ rd = Len(inbound)
    /\ net # "open"
    /\ returns' = Append(returns, [frame |-> 0, result |-> RecvNone])
    /\ ws_pc' = "idle"
    /\ UNCHANGED <<inbound, rd, net, wire, sends, conn2, sseVars, selVars, respVars>>

\* Mutant of WsStream_send: the frame is put before the ones already sent.
WsStream_send_newest_first(transport, out, event) ==
    IF transport = "open"
    THEN [ok |-> TRUE, wire |-> << Text(WsEvent_to_string(event)) >> \o out]
    ELSE [ok |-> FALSE, wire |-> out]

\* WsStream::send(event) on a socket with the transport in the given state
\* and the messages `out` already sent: the event always serializes, and
\* socket.send(Message::Text(json)) adds one text frame, or fails on a
\* transport that is gone.
WsStream_send(transport, out, event) ==
    IF transport = "open"
    THEN [ok |-> TRUE, wire |-> Append(out, Text(WsEvent_to_string(event)))]
    ELSE [ok |-> FALSE, wire |-> out]

\* The handler calls send(event).
Send ==
    /\ ws_pc = "idle"
    /\ Used < MaxFrames
    /\ \E event \in SendEvents :
          LET r == WsStream_send(net, wire, event) IN
          /\ wire' = r.wire
          /\ sends' = Append(sends, [event |-> event, ok |-> r.ok])
    /\ UNCHANGED <<ws_pc, inbound, rd, net, returns, conn2, sseVars, selVars, respVars>>

\* WsStream::close(self): a close frame is sent, its result ignored.
Close_stream ==
    /\ ws_pc = "idle"
    /\ wire' = IF net = "open" THEN Append(wire, Close) ELSE wire
    /\ ws_pc' = "closed"
    /\ UNCHANGED <<inbound, rd, net, returns, sends, conn2, sseVars, selVars, respVars>>

NextWs ==
    \/ Peer_frame
    \/ Peer_close
    \/ Peer_disconnect
    \/ Recv_call
    \/ Recv_message
    \/ Recv_end
    \/ Send
    \/ Close_stream

SpecWs == InitWs /\ [][NextWs]_vars

(***************************************************************************)
(* Two connections, each with its own WsStream and handler task: sends on  *)
(* the one and on the other, and either transport going away.              *)
(***************************************************************************)
InitPair ==
    /\ ws_pc = "idle"
    /\ inbound = << >>
    /\ rd = 0
    /\ net = "open"
    /\ returns = << >>
    /\ wire = << >>
    /\ sends = << >>
    /\ conn2 = Connection("open")
    /\ SseIdle
    /\ RespIdle
    /\ SelIdle

\* The handler of the second connection calls send(event) on its stream.
Send_other ==
    /\ conn2.net # "off"
    /\ Used < MaxFrames
    /\ \E event \in SendEvents :
          LET r == WsStream_send(conn2.net, conn2.wire, event) IN
          conn2' = [conn2 EXCEPT !.wire = r.wire,
                                 !.sends = Append(@, [event |-> event, ok |-> r.ok])]
    /\ UNCHANGED <<ws_pc, inbound, rd, net, returns, wire, sends, sseVars, selVars, respVars>>

\* The transport of the second connection goes away.
Other_disconnect ==
    /\ conn2.net = "open"
    /\ \E state \in {"ended", "error"} : conn2' = [conn2 EXCEPT !.net = state]
    /\ UNCHANGED <<ws_pc, inbound, rd, net, returns, wire, sends, sseVars, selVars, respVars>>

NextPair ==
    \/ Send
    \/ Send_other
    \/ Peer_disconnect
    \/ Other_disconnect

SpecWsPair == InitPair /\ [][NextPair]_vars

(***************************************************************************)
(* The JSON codec of WsEvent on its own: an event is serialized to text    *)
(* and the text is deserialized (the round trip tests of ws.rs).  sends    *)
(* holds the event, wire the text and returns the result of from_str.      *)
(***************************************************************************)
\* The same connection where the runtime keeps polling a pending recv: the
\* future of socket.recv() is woken when a message, the end of the stream or
\* an error is there to be read, so a round of the loop that can be taken is
\* taken.
SpecWsLive == SpecWs /\ WF_vars(Recv_message) /\ WF_vars(Recv_end)

\* Field values: strings (one empty, one that is the name of the tag field)
\* and JSON values of every kind (one an object with a field "type").
WsStrings == {"#a", "", "type"}
WsValues ==
    { JNull, JBool(TRUE), JNum(42), JStr("x"), JArr(<< JNum(1), JStr("y") >>),
      JObj(EmptyMap),
      JObj([k \in {"type"} |-> JStr("patch")]),
      JObj([k \in {"count"} |-> JNum(42)]) }

AllWsEvents ==
    {Patch(t, d) : t \in WsStrings, d \in WsValues}
      \cup {Html(t, m) : t \in WsStrings, m \in WsStrings}
      \cup {Invalidate(t) : t \in WsStrings}
      \cup {Navigate(q) : q \in WsStrings}
      \cup {Custom(n, d) : n \in WsStrings, d \in WsValues}

InitCodec ==
    /\ ws_pc = "codec"
    /\ sends \in {<< [event |-> e, ok |-> TRUE] >> : e \in AllWsEvents}
    /\ wire = << >>
    /\ returns = << >>
    /\ inbound = << >>
    /\ rd = 0
    /\ net = "open"
    /\ conn2 = NoConnection
    /\ SseIdle
    /\ RespIdle
    /\ SelIdle

\* serde_json::to_string(&event)
To_string ==
    /\ ws_pc = "codec"
    /\ wire = << >>
    /\ wire' = << Text(WsEvent_to_string(sends[1].event)) >>
    /\ UNCHANGED <<ws_pc, inbound, rd, net, returns, sends, conn2, sseVars, selVars, respVars>>

\* serde_json::from_str::<WsEvent>(&json)
From_str ==
    /\ ws_pc = "codec"
    /\ wire # << >>
    /\ returns = << >>
    /\ returns' = << [frame |-> 0, result |-> WsEvent_from_str(wire[1].text)] >>
    /\ UNCHANGED <<ws_pc, inbound, rd, net, wire, sends, conn2, sseVars, selVars, respVars>>

NextCodec ==
    \/ To_string
    \/ From_str

SpecCodec == InitCodec /\ [][NextCodec]_vars

(***************************************************************************)
(* Properties of the WebSocket events (checked under SpecCodec) and of the *)
(* stream (checked under SpecWs).                                          *)
(***************************************************************************)
\* C18: WS round trip.  For every event of each of the five variants and
\* every field value, deserializing the JSON text the event serializes to
\* gives Ok with the same variant and exactly the same field values.
C18_WsRoundTrip ==
    (ws_pc = "codec" /\ returns # << >>) =>
        returns[1].result = DeOk(sends[1].event)

C18_Witness ==
    /\ ws_pc = "codec"
    /\ returns # << >>
    /\ sends[1].event.variant = "Custom"
    /\ sends[1].event.event = "type"
    /\ sends[1].event.data = JObj([k \in {"type"} |-> JStr("patch")])
    /\ returns[1].result.ok
    /\ returns[1].result.event = sends[1].event

\* The JSON an event or a text frame is sent as.
Json(text) == serde_json_from_str(text)

\* The text is one JSON object whose "type" is one of the tags of `fields`
\* and whose other fields are exactly the ones listed for the tag.
HasWireFormat(text, fields) ==
    /\ Json(text).t = "obj"
    /\ HasStr(Json(text).o, "type")
    /\ Json(text).o["type"].s \in DOMAIN fields
    /\ (DOMAIN Json(text).o) \ {"type"} = fields[Json(text).o["type"].s]

WireFields ==
    [patch      |-> {"target", "data"},
     html       |-> {"target", "markup"},
     invalidate |-> {"target"},
     navigate   |-> {"path"},
     custom     |-> {"event", "data"}]

IsTaggedShape(text) ==
    /\ Json(text).t = "obj"
    /\ HasStr(Json(text).o, "type")
    /\ Json(text).o["type"].s \in DOMAIN WireFields
    /\ \A k \in WireFields[Json(text).o["type"].s] :
          /\ k \in DOMAIN Json(text).o
          /\ k # "data" => Json(text).o[k].t = "str"

\* The event has the variant and the field values the text gives.
IsEventOf(event, text) ==
    \A k \in DOMAIN WsEvent_serialize(event).o :
        WsEvent_serialize(event).o[k] = Json(text).o[k]

\* C20: every value recv returned for an inbound frame classifies the frame:
\* text of the tagged JSON shape gives Some(Ok(event)) with the event of the
\* text, other text Some(Err(Deserialize)), a close frame Some(Err(Closed)),
\* a binary frame Some(Err(NonText)); only well-formed text gives Ok; and
\* recv returns for every text, close and binary frame it takes.
C20_RecvClassifiesFrames ==
    /\ \A i \in 1..Len(returns) :
          returns[i].frame # 0 =>
              LET msg    == inbound[returns[i].frame]
                  result == returns[i].result
              IN /\ (msg.frame = "text" /\ IsTaggedShape(msg.text)) =>
                       /\ result.ret = "Ok"
                       /\ IsEventOf(result.event, msg.text)
                 /\ (msg.frame = "text" /\ ~IsTaggedShape(msg.text)) =>
                       result = RecvErr("Deserialize")
                 /\ msg.frame = "close" => result = RecvErr("Closed")
                 /\ msg.frame = "binary" => result = RecvErr("NonText")
                 /\ result.ret = "Ok" => (msg.frame = "text" /\ IsTaggedShape(msg.text))
    /\ \A j \in 1..rd :
          inbound[j].frame \in {"text", "close", "binary"} =>
              \E i \in 1..Len(returns) : returns[i].frame = j

C20_Witness ==
    /\ Len(returns) = 3
    /\ returns[1].result.ret = "Ok"
    /\ returns[2].result = RecvErr("Deserialize")
    /\ returns[3].result \in {RecvErr("Closed"), RecvErr("NonText")}

\* The inbound frame of the return before the i-th (0 before the first).
PrevFrame(i) == IF i = 1 THEN 0 ELSE returns[i - 1].frame

ViolationReported ==
    \E i \in 1..Len(returns) :
        returns[i].result \in {RecvErr("Deserialize"), RecvErr("NonText")}

\* The kinds of result recv gives for a frame of each kind.
ResultKinds(msg) ==
    CASE msg.frame = "text"   -> {"Ok", "Deserialize"}
      [] msg.frame = "binary" -> {"NonText"}
      [] msg.frame = "close"  -> {"Closed"}
      [] OTHER                -> {}

\* What kind of result it is.
ResultKind(result) == IF result.ret = "Err" THEN result.error ELSE result.ret

\* C22: protocol violations do not end the connection.  The recv call that
\* returns Err(Deserialize) or Err(NonText) sends nothing, leaves the
\* connection as it is and takes no frame beyond the one it reports; the
\* recv call after it returns the classification of the next inbound frame
\* that is not a ping or pong; a send after it still puts its frame on the
\* open connection; no step of recv or send changes the state of the
\* connection, and a close frame is sent only by WsStream::close.
C22_ViolationsDoNotEndConnection ==
    /\ [][(Len(returns') > Len(returns)
            /\ returns'[Len(returns')].result
                  \in {RecvErr("Deserialize"), RecvErr("NonText")})
          => /\ wire' = wire
             /\ net' = net
             /\ inbound' = inbound
             /\ rd' = returns'[Len(returns')].frame]_vars
    /\ [][(Len(returns') > Len(returns) /\ Len(returns) > 0
            /\ returns[Len(returns)].result
                  \in {RecvErr("Deserialize"), RecvErr("NonText")}
            /\ returns'[Len(returns')].frame # 0)
          => LET prev == returns[Len(returns)].frame
                 this == returns'[Len(returns')].frame
             IN /\ this > prev
                /\ \A j \in (prev + 1)..(this - 1) :
                      inbound[j].frame \in {"ping", "pong"}
                /\ ResultKind(returns'[Len(returns')].result)
                      \in ResultKinds(inbound[this])]_vars
    /\ [][(Len(sends') > Len(sends) /\ ViolationReported /\ net = "open")
          => /\ sends'[Len(sends')].ok
             /\ wire' = Append(wire,
                           Text(WsEvent_to_string(sends'[Len(sends')].event)))]_vars
    /\ [][(returns' # returns \/ sends' # sends \/ ws_pc' # ws_pc)
          => net' = net]_vars
    /\ []((\E k \in 1..Len(wire) : wire[k] = Close) => ws_pc = "closed")

C22_Witness ==
    /\ Len(returns) = 2
    /\ returns[1].result = RecvErr("Deserialize")
    /\ returns[2].result.ret = "Ok"
    /\ Len(sends) = 1
    /\ sends[1].ok
    /\ Len(wire) = 1
    /\ net = "open"

\* The frames the socket has still to yield are ping and pong frames only.
OnlyPingsLeft ==
    \A j \in (rd + 1)..Len(inbound) : inbound[j].frame \in {"ping", "pong"}

\* The frames the socket has still to yield are ping and pong frames and
\* then the close frame of the peer.
CloseIsNext ==
    \E c \in (rd + 1)..Len(inbound) :
        /\ inbound[c] = Close
        /\ \A j \in (rd + 1)..(c - 1) : inbound[j].frame \in {"ping", "pong"}

\* The value the latest recv call returned.
LastReturn ==
    IF returns = << >> THEN [ret |-> "no call yet"]
    ELSE returns[Len(returns)].result

RECURSIVE SentFrames(_)
SentFrames(calls) ==
    IF calls = << >> THEN << >>
    ELSE LET rest == SentFrames(SubSeq(calls, 1, Len(calls) - 1))
             call == calls[Len(calls)]
         IN IF call.ok
            THEN Append(rest, Text(WsEvent_to_string(call.event)))
            ELSE rest

\* C24: sends are put on the wire in call order.  On each connection the
\* frames on the wire are exactly one text frame per successful send, each
\* carrying the JSON of its event, in the order of the calls; the frames of
\* one connection are those of its own sends only, whatever was sent on the
\* other connection.
C24_SendsInCallOrder ==
    ws_pc = "idle" =>
        /\ wire = SentFrames(sends)
        /\ conn2.wire = SentFrames(conn2.sends)

C24_Witness ==
    /\ Len(sends) = 2
    /\ sends[1].ok /\ sends[2].ok
    /\ sends[1].event.variant = "Navigate"
    /\ sends[2].event.variant = "Patch"
    /\ Len(conn2.sends) = 1
    /\ conn2.sends[1].ok
    /\ conn2.sends[1].event.variant = "Html"
    /\ Json(wire[1].text).o["type"] = JStr("navigate")
    /\ Json(wire[2].text).o["type"] = JStr("patch")
    /\ Len(conn2.wire) = 1

(***************************************************************************)
(* sse.rs: SilcrowEvent and its conversion to an axum SSE Event.           *)
(*                                                                         *)
(* An axum Event is kept as its event name and its data text; the data     *)
(* text is JSON text as in response.rs.                                    *)
(***************************************************************************)
\* EventKind::Patch { data, target } and EventKind::Html { markup, target }
EventKind_Patch(data, target)  == [kind |-> "Patch", data |-> data, target |-> target]
EventKind_Html(markup, target) == [kind |-> "Html", markup |-> markup, target |-> target]

\* SilcrowEvent::patch(data, target)
SilcrowEvent_patch(data, target) ==
    EventKind_Patch(IF to_value(data).ok THEN to_value(data).value ELSE JNull,
                    target)

\* SilcrowEvent::html(markup, target)
SilcrowEvent_html(markup, target) == EventKind_Html(markup, target)

\* Event::default().event(name)
Event_named(name) == [event |-> name, data |-> None]

\* Event::json_data(payload): Result<Event, axum::Error>; it fails when the
\* payload fails to serialize.
Event_json_data(event, payload) ==
    IF to_value(payload).ok
    THEN [ok |-> TRUE,
          event |-> [event EXCEPT !.data = Some(serde_json_to_string(to_value(payload).value))]]
    ELSE [ok |-> FALSE]

\* Event::data("{}")
Event_data_empty_object(event) ==
    [event EXCEPT !.data = Some(serde_json_to_string(JObj(EmptyMap)))]

\* json!({"target": target, "data": data})
sse_patch_payload(target, data) ==
    JObj([k \in {"target", "data"} |-> IF k = "target" THEN JStr(target) ELSE data])

\* json!({"target": target, "html": markup})
sse_html_payload(target, markup) ==
    JObj([k \in {"target", "html"} |->
            IF k = "target" THEN JStr(target) ELSE JStr(markup)])

\* Mutant of the conversion: the payload of an html event carries the
\* markup in the field "markup", as a WsEvent does.
Event_from_markup_field(evt) ==
    IF evt.kind = "Patch"
    THEN LET r == Event_json_data(Event_named("patch"),
                                  sse_patch_payload(evt.target, evt.data))
         IN IF r.ok THEN r.event ELSE Event_data_empty_object(Event_named("patch"))
    ELSE LET r == Event_json_data(Event_named("html"),
                     JObj([k \in {"target", "markup"} |->
                             IF k = "target" THEN JStr(evt.target)
                             ELSE JStr(evt.markup)]))
         IN IF r.ok THEN r.event ELSE Event_data_empty_object(Event_named("html"))

\* impl From<SilcrowEvent> for Event
Event_from(evt) ==
    IF evt.kind = "Patch"
    THEN LET r == Event_json_data(Event_named("patch"),
                                  sse_patch_payload(evt.target, evt.data))
         IN IF r.ok THEN r.event ELSE Event_data_empty_object(Event_named("patch"))
    ELSE LET r == Event_json_data(Event_named("html"),
                                  sse_html_payload(evt.target, evt.markup))
         IN IF r.ok THEN r.event ELSE Event_data_empty_object(Event_named("html"))

\* Arguments of the constructors: targets and markup (one empty, one with a
\* quote), and data of every JSON kind and data that fails to serialize.
SseTargets == {"#dashboard", "#content", "#empty", "", "a\"b"}
SseMarkups == {"<p>Updated</p>", "", "<div class=\"card\"></div>"}
SseData    == WsValues \cup {FailingSerialize}

InitSse ==
    /\ sse_pc = "new"
    /\ sse_in = None
    /\ sse_evt = None
    /\ sse_out = None
    /\ WsIdle
    /\ RespIdle
    /\ SelIdle

\* SilcrowEvent::patch(data, target)
Sse_patch ==
    /\ sse_pc = "new"
    /\ \E data \in SseData, target \in SseTargets :
          /\ sse_in' = Some([data |-> data, target |-> target])
          /\ sse_evt' = Some(SilcrowEvent_patch(data, target))
    /\ sse_pc' = "built"
    /\ UNCHANGED <<sse_out, wsVars, selVars, respVars>>

\* SilcrowEvent::html(markup, target)
Sse_html ==
    /\ sse_pc = "new"
    /\ \E markup \in SseMarkups, target \in SseTargets :
          /\ sse_in' = Some([markup |-> markup, target |-> target])
          /\ sse_evt' = Some(SilcrowEvent_html(markup, target))
    /\ sse_pc' = "built"
    /\ UNCHANGED <<sse_out, wsVars, selVars, respVars>>

\* evt.into()
Sse_into ==
    /\ sse_pc = "built"
    /\ sse_out' = Some(Event_from(sse_evt[1]))
    /\ sse_pc' = "converted"
    /\ UNCHANGED <<sse_in, sse_evt, wsVars, selVars, respVars>>

NextSse ==
    \/ Sse_patch
    \/ Sse_html
    \/ Sse_into

SpecSse == InitSse /\ [][NextSse]_vars

(***************************************************************************)
(* Properties of the server-sent events (checked under SpecSse).           *)
(***************************************************************************)
\* The JSON object the data of the converted event denotes.
SseDataObject == Json(sse_out[1].data[1])

\* C25: SSE wire format.  Every converted event is named patch or html and
\* its data is one JSON object: for a patch event exactly the fields target
\* and data, holding the target given to the constructor and the JSON value
\* of the data given to it (when the data serializes); for an html event
\* exactly the fields target and html, holding the target and the markup
\* given to the constructor.
C25_SseWireFormat ==
    sse_pc = "converted" =>
        /\ sse_out[1].event \in {"patch", "html"}
        /\ sse_out[1].data # None
        /\ SseDataObject.t = "obj"
        /\ sse_evt[1].kind = "Patch" =>
              /\ sse_out[1].event = "patch"
              /\ DOMAIN SseDataObject.o = {"target", "data"}
              /\ SseDataObject.o["target"] = JStr(sse_in[1].target)
              /\ to_value(sse_in[1].data).ok =>
                    SseDataObject.o["data"] = to_value(sse_in[1].data).value
        /\ sse_evt[1].kind = "Html" =>
              /\ sse_out[1].event = "html"
              /\ DOMAIN SseDataObject.o = {"target", "html"}
              /\ SseDataObject.o["target"] = JStr(sse_in[1].target)
              /\ SseDataObject.o["html"] = JStr(sse_in[1].markup)

C25_Witness ==
    /\ sse_pc = "converted"
    /\ sse_evt[1].kind = "Html"
    /\ sse_in[1].markup = ""
    /\ sse_in[1].target = "a\"b"
    /\ sse_out[1].event = "html"
    /\ SseDataObject.o["html"] = JStr("")

\* C26: when the data given to SilcrowEvent::patch fails to serialize, the
\* event is still constructed and converted, the converted event is named
\* patch, and its data is the empty JSON object {}.
C26_FailingDataGivesEmptyObject ==
    (sse_pc = "converted" /\ sse_evt[1].kind = "Patch"
        /\ ~to_value(sse_in[1].data).ok) =>
        /\ sse_out[1].event = "patch"
        /\ sse_out[1].data = Some(serde_json_to_string(JObj(EmptyMap)))

(***************************************************************************)
(* macros.rs: respond!.                                                    *)
(*                                                                         *)
(* An invocation is given an html arm, a json arm or both, and optionally  *)
(* a shared toast.  An arm is the value its expression evaluates to: a     *)
(* response, or for `json => raw e` the payload.                           *)
(***************************************************************************)
\* `json => raw e` and `json => e`
RawArm(value)       == [raw |-> TRUE, value |-> value]
ResponseArm(result) == [raw |-> FALSE, result |-> result]

\* The response value an arm gives: $html, $json or $crate::json($json)
arm_value(arm) == IF arm.raw THEN json(arm.value) ELSE arm.result

\* $crate::ResponseExt::with_toast(response, $msg, $lvl)
ResponseExt_with_toast(response, toast) ==
    [response EXCEPT !.base = with_toast(@, toast[1], toast[2])]

\* Mutant of respond: the expressions of both arms are evaluated before the
\* match, the response of the preferred one is returned.
respond_eager_arms(self, a) ==
    LET m == preferred_mode(self)
        h == IF a.html # None THEN << "html" >> ELSE << >>
        j == IF a.json # None THEN << "json" >> ELSE << >>
        toasted(response) ==
            IF a.toast = None THEN response
            ELSE ResponseExt_with_toast(response, a.toast[1])
    IN IF m = "Html"
       THEN [mode |-> m, invoked |-> h \o j,
             result |-> IF a.html # None
                        THEN Ok(into_response(toasted(arm_value(a.html[1]))))
                        ELSE Ok(StatusText(406, "JSON required"))]
       ELSE [mode |-> m, invoked |-> h \o j,
             result |-> IF a.json # None
                        THEN Ok(into_response(toasted(arm_value(a.json[1]))))
                        ELSE Ok(StatusText(406, "HTML required"))]

\* respond!($req, { .. }): the rule that matches the invocation, its match
\* on $req.preferred_mode() and the arm of the match that is evaluated.
respond(self, a) ==
    LET m == preferred_mode(self)
        toasted(response) ==
            IF a.toast = None THEN response
            ELSE ResponseExt_with_toast(response, a.toast[1])
    IN IF m = "Html"
       THEN IF a.html # None
            THEN [mode |-> m, invoked |-> << "html" >>,
                  result |-> Ok(into_response(toasted(arm_value(a.html[1]))))]
            ELSE [mode |-> m, invoked |-> << >>,
                  result |-> Ok(StatusText(406, "JSON required"))]
       ELSE IF a.json # None
            THEN [mode |-> m, invoked |-> << "json" >>,
                  result |-> Ok(into_response(toasted(arm_value(a.json[1]))))]
            ELSE [mode |-> m, invoked |-> << >>,
                  result |-> Ok(StatusText(406, "HTML required"))]

\* The arms of the invocations: plain responses, a response that carries a
\* toast of its own, a raw payload and a payload that fails to serialize.
HtmlArms ==
    { ResponseArm(html("<h1>Hello</h1>")),
      ResponseArm(ResponseExt_with_toast(html("<h1>Hello</h1>"), <<"HTML toast", "info">>)) }
JsonArms ==
    { ResponseArm(json(JObj([k \in {"ok"} |-> JBool(TRUE)]))),
      ResponseArm(ResponseExt_with_toast(json(JObj([k \in {"ok"} |-> JBool(TRUE)])),
                                         <<"JSON toast", "success">>)),
      ResponseArm(json(FailingSerialize)),
      RawArm(JObj([k \in {"auto"} |-> JBool(TRUE)])),
      RawArm(JArr(<< JNum(1) >>)) }
SharedToasts == { <<"Saved!", "success">> }

\* Every form of invocation the rules of the macro accept.
Invocations ==
    { [html |-> h, json |-> j, toast |-> t] :
        h \in {None} \cup {Some(x) : x \in HtmlArms},
        j \in {None} \cup {Some(x) : x \in JsonArms},
        t \in {None} \cup {Some(x) : x \in SharedToasts} }
    \ { [html |-> None, json |-> None, toast |-> t] :
        t \in {None} \cup {Some(x) : x \in SharedToasts} }

\* Every SilcrowRequest (the tests build the struct directly).
SilcrowRequests ==
    { [tag |-> "Ok", is_silcrow |-> s, accepts_html |-> h, accepts_json |-> j] :
        s \in BOOLEAN, h \in BOOLEAN, j \in BOOLEAN }

InitRespond ==
    /\ pc = "handler"
    /\ parts = [silcrow_target |-> FALSE, accept |-> [kind |-> "absent", ranges |-> << >>]]
    /\ req \in {Some(r) : r \in SilcrowRequests}
    /\ responses = Responses_new
    /\ html_calls = 0
    /\ json_calls = 0
    /\ mode = "None"
    /\ outcome = None
    /\ arms \in {Some(a) : a \in Invocations}
    /\ RespIdle
    /\ WsIdle
    /\ SseIdle

\* respond!(req, { .. })
Respond ==
    /\ pc = "handler"
    /\ arms # None
    /\ LET r == respond(req[1], arms[1]) IN
        /\ mode' = r.mode
        /\ html_calls' = html_calls + Count(r.invoked, "html")
        /\ json_calls' = json_calls + Count(r.invoked, "json")
        /\ outcome' = Some(r.result)
    /\ pc' = "done"
    /\ UNCHANGED <<parts, req, responses, arms, respVars, streamVars>>

NextRespond == Respond

SpecRespond == InitRespond /\ [][NextRespond]_vars

(***************************************************************************)
(* Properties of respond! (checked under SpecRespond).                     *)
(***************************************************************************)
\* The arm of the invocation for the preferred mode of the request.
PreferredArm ==
    IF preferred_mode(Signal) = "Html" THEN arms[1].html ELSE arms[1].json

\* The response of the preferred arm with the shared toast, when given,
\* appended once after the toasts the arm set itself.
ArmResponseThenToast ==
    LET response == arm_value(PreferredArm[1]) IN
    IF arms[1].toast = None THEN response
    ELSE [response EXCEPT
            !.base.toasts = Append(@, Toast(arms[1].toast[1][1], arms[1].toast[1][2]))]

\* C27: respond! is a dual-mode selection followed by the shared toast.
\* For every request signal and every form of invocation: the mode matched
\* is the preferred mode; when the invocation has the arm of that mode, that
\* arm's expression is evaluated once, the other arm's not at all, and the
\* result is Ok of the encoding of the arm's response with the shared toast,
\* when given, appended exactly once; when it lacks the arm (a single-arm
\* form asked for the other mode), the result is Ok(406 Not Acceptable), no
\* arm is evaluated and the response carries no toast.
C27_RespondIsSelectThenToast ==
    (pc = "done" /\ arms # None) =>
        /\ mode = preferred_mode(Signal)
        /\ outcome[1].tag = "Ok"
        /\ PreferredArm # None =>
              /\ html_calls = (IF mode = "Html" THEN 1 ELSE 0)
              /\ json_calls = (IF mode = "Json" THEN 1 ELSE 0)
              /\ outcome[1].response = into_response(ArmResponseThenToast)
        /\ PreferredArm = None =>
              /\ html_calls = 0
              /\ json_calls = 0
              /\ outcome[1].response.status = 406
              /\ outcome[1].response.body.kind = "text"
              /\ ToastCookies(outcome[1].response) = {}

C27_Witness ==
    /\ pc = "done" /\ arms # None
    /\ arms[1].html # None /\ arms[1].json # None /\ arms[1].toast # None
    /\ Signal.is_silcrow /\ ~Signal.accepts_html
    /\ mode = "Json"
    /\ arms[1].json[1] = ResponseArm(ResponseExt_with_toast(
                            json(JObj([k \in {"ok"} |-> JBool(TRUE)])),
                            <<"JSON toast", "success">>))
    /\ html_calls = 0 /\ json_calls = 1
    /\ ToastsInBody(outcome[1].response,
                    << Toast("JSON toast", "success"), Toast("Saved!", "success") >>)

(***************************************************************************)
(* Properties of the mode resolution across request signals (checked       *)
(* under SpecSelect).                                                      *)
(***************************************************************************)
\* C28: the outcome of preferred_mode depends on accepts_html alone.  The
\* mode select matched is Html exactly when the signal accepts HTML, and
\* every signal that agrees with the request's on accepts_html, whatever
\* its is_silcrow and accepts_json, resolves to the same mode, makes select
\* run the same producer and gets the same result.
C28_ModeDependsOnAcceptsHtmlAlone ==
    pc = "done" =>
        /\ (mode = "Html") <=> Signal.accepts_html
        /\ \A s \in SilcrowRequests :
              s.accepts_html = Signal.accepts_html =>
                  /\ preferred_mode(s) = mode
                  /\ Count(select(s, responses).invoked, "html") = html_calls
                  /\ Count(select(s, responses).invoked, "json") = json_calls
                  /\ select(s, responses).result = outcome[1]

C28_Witness ==
    /\ pc = "done"
    /\ Signal.is_silcrow /\ Signal.accepts_html /\ Signal.accepts_json
    /\ BothRegistered
    /\ mode = "Html"
    /\ html_calls = 1 /\ json_calls = 0
    /\ preferred_mode([Signal EXCEPT !.is_silcrow = FALSE, !.accepts_json = FALSE]) = "Html"

(***************************************************************************)
(* Properties of the modifiers taken together (checked under               *)
(* SpecDirectives).                                                        *)
(***************************************************************************)
\* The header names that two header maps do not agree on.
ChangedNames(before, after) ==
    {n \in (DOMAIN before) \cup (DOMAIN after) :
        \/ n \notin DOMAIN before
        \/ n \notin DOMAIN after
        \/ (n \in DOMAIN before /\ n \in DOMAIN after /\ before[n] # after[n])}

\* The header names the latest call was logged for with a new value.
LoggedNames ==
    {n \in DOMAIN header_log' :
        IF n \in DOMAIN header_log THEN header_log[n] # header_log'[n] ELSE TRUE}

\* Modifier calls as <<method, header name owned, argument>>: the typed
\* setters, with_header for each key, and with_toast (which owns no name).
ModifierCalls ==
    {<<op, ReservedHeader[op], arg>> :
        op \in {"no_cache", "trigger_event", "retarget", "push_history",
                "patch_target", "invalidate_target", "client_navigate", "sse"},
        arg \in SetterArgs}
    \cup {<<"with_header", key, value>> : key \in HeaderKeys, value \in HeaderValueStrs}
    \cup {<<"with_toast", "", t[1]>> : t \in ToastArgs}

\* The call made on a response value.
Modified(response, call) ==
    [response EXCEPT !.base =
        CASE call[1] = "with_header" -> with_header(@, call[2], call[3])
          [] call[1] = "with_toast"  -> with_toast(@, call[3], "info")
          [] OTHER                   -> SetterCall(call[1], @, call[3])]

\* C29: modifiers are independent of one another.  A modifier call leaves
\* the kind and the payload of the response and its cookies as they were,
\* and either changes the value of at most one header name, the one the
\* call owns, with the toasts unchanged, or appends one toast with every
\* header unchanged.  Hence two calls that own different names give the
\* same response value and the same encoded response in either order.
C29_ModifiersAreIndependent ==
    /\ [][(rpc = "building" /\ rpc' = "building" /\ resp' # resp)
          => LET before == resp[1].base
                 after  == resp'[1].base
             IN /\ [resp'[1] EXCEPT !.base = before] = resp[1]
                /\ after.cookies = before.cookies
                /\ \/ /\ after.toasts = before.toasts
                      /\ Cardinality(ChangedNames(before.headers, after.headers)) <= 1
                      /\ ChangedNames(before.headers, after.headers) \subseteq LoggedNames
                   \/ /\ after.headers = before.headers
                      /\ Len(after.toasts) = Len(before.toasts) + 1
                      /\ SubSeq(after.toasts, 1, Len(before.toasts)) = before.toasts
                      /\ toast_log' # toast_log]_vars
    /\ []((rpc = "building"
            /\ Cardinality(DOMAIN resp[1].base.headers) + Len(resp[1].base.toasts) <= 1)
          => \A c1 \in ModifierCalls, c2 \in ModifierCalls :
                c1[2] # c2[2] =>
                    /\ Modified(Modified(resp[1], c1), c2) = Modified(Modified(resp[1], c2), c1)
                    /\ into_response(Modified(Modified(resp[1], c1), c2))
                          = into_response(Modified(Modified(resp[1], c2), c1)))

C29_Witness ==
    /\ rpc = "encoded"
    /\ resp[1].kind = "html"
    /\ DOMAIN resp[1].base.headers = {"silcrow-retarget", "silcrow-push"}
    /\ Len(resp[1].base.toasts) = 1
    /\ hm_get_all(encoded[1].headers, "silcrow-retarget") = << HV("#a") >>
    /\ hm_get_all(encoded[1].headers, "silcrow-push") = << HV("/b") >>
    /\ ToastCookies(encoded[1]) # {}

\* The inbound frame the latest return that stands for a frame was for.
LastFrame ==
    LET for_frames == {i \in 1..Len(returns) : returns[i].frame # 0} IN
    IF for_frames = {} THEN 0
    ELSE returns[CHOOSE i \in for_frames : \A k \in for_frames : k <= i].frame

====
